---- MODULE Spec2Model ----
(***************************************************************************)
(* Heart-sound classification backend (fyp_cardio_sense).                  *)
(*                                                                         *)
(* The model covers the inference services                                 *)
(*   backend/app/services/ai_service.py            (HeartSoundClassifier)  *)
(*   backend/app/services/ai_service_calibrated.py (…Calibrated)           *)
(* and the routes that call them (routes/pcg.py, routes/ai_test.py).       *)
(*                                                                         *)
(* Class scores are fixed-point numbers: an integer s stands for the       *)
(* score s / SCALE.  Every arithmetic step of the calibration (clip, log,  *)
(* division by the temperature, exp, normalisation) rounds to that         *)
(* resolution, as the floating-point steps of the code round to theirs.    *)
(* Percentages are integers in units of 0.01 % (two decimals).             *)
(***************************************************************************)
EXTENDS Integers, Sequences, FiniteSets, TLC

(***************************************************************************)
(* Bounds of the model                                                     *)
(***************************************************************************)
MaxCalls == 2          \* requests served in one behaviour of Spec
NumThreads == 2        \* concurrent callers in SpecThreads
MaxUploads == 2        \* uploads created in one behaviour of SpecClinic
MaxSignups == 2        \* signup requests that get as far as storing, in SpecAuth
MaxTicks == 2          \* steps of the clock in SpecAuth, SpecOtp and SpecReset
MaxOtps == 2           \* rows of otp_tokens created in SpecOtp, SpecReset, SpecAccounts
MaxAccessRequests == 3 \* rows of dataset_access created in SpecDatasets

(***************************************************************************)
(* Program constants                                                       *)
(***************************************************************************)
FS_TARGET == 2000
DURATION_TENTHS == 30           \* DURATION = 3.0 seconds
ANALOG_LEN == 250
MFCC_LEN == 38
N_MFCC == 20
TEMPERATURE == <<5, 2>>         \* 2.5 as numerator / denominator
EPS_DEN == 10000000             \* epsilon = 1e-7 = 1 / EPS_DEN

(***************************************************************************)
(* Fixed-point arithmetic                                                  *)
(***************************************************************************)
SCALE == 1000000
LN2 == 693147                   \* round(SCALE * ln 2)

Max2(a, b) == IF a >= b THEN a ELSE b
Min2(a, b) == IF a <= b THEN a ELSE b

\* a / d rounded to nearest, halves up; a >= 0, d > 0
RDiv(a, d) == (a \div d) + (IF 2 * (a % d) >= d THEN 1 ELSE 0)

\* a / d rounded to nearest, halves to even; a >= 0, d > 0
RDivEven(a, d) ==
  LET q == a \div d
      r == a % d
  IN IF 2 * r > d \/ (2 * r = d /\ q % 2 = 1) THEN q + 1 ELSE q

\* round(a * b / SCALE) for 0 <= a, b <= SCALE, within 32 bits
FMul(a, b) == RDiv((a \div 1000) * b + RDiv((a % 1000) * b, 1000), 1000)

\* round(a * SCALE / d) for 0 <= a <= d <= 2 * 10^7, long division in base 100
FDiv(a, d) ==
  LET q1 == (a * 100) \div d
      r1 == (a * 100) % d
      q2 == (r1 * 100) \div d
      r2 == (r1 * 100) % d
      q3 == RDiv(r2 * 100, d)
  IN q1 * 10000 + q2 * 100 + q3

RECURSIVE Doublings(_)
Doublings(x) == IF 2 * x >= EPS_DEN THEN 0 ELSE 1 + Doublings(2 * x)

RECURSIVE Pow2(_)
Pow2(k) == IF k = 0 THEN 1 ELSE 2 * Pow2(k - 1)

\* np.log: x in 1 .. EPS_DEN stands for x / EPS_DEN; result is SCALE * ln, <= 0
Ln(x) ==
  LET k == Doublings(x)
      m == x * Pow2(k)
      z == FDiv(EPS_DEN - m, EPS_DEN + m)
      z2 == FMul(z, z)
      z3 == FMul(z2, z)
      z5 == FMul(z3, z2)
      z7 == FMul(z5, z2)
      z9 == FMul(z7, z2)
      z11 == FMul(z9, z2)
      s == z + RDiv(z3, 3) + RDiv(z5, 5) + RDiv(z7, 7) + RDiv(z9, 9) + RDiv(z11, 11)
  IN -(k * LN2 + 2 * s)

\* np.exp: y <= 0 stands for y / SCALE; result is SCALE * exp
Exp(y) ==
  LET k == (-y) \div LN2
      r == (-y) % LN2
      r2 == FMul(r, r)
      r3 == FMul(r2, r)
      r4 == FMul(r3, r)
      r5 == FMul(r4, r)
      r6 == FMul(r5, r)
      r7 == FMul(r6, r)
      r8 == FMul(r7, r)
      e == SCALE - r + RDiv(r2, 2) - RDiv(r3, 6) + RDiv(r4, 24) - RDiv(r5, 120)
             + RDiv(r6, 720) - RDiv(r7, 5040) + RDiv(r8, 40320)
  IN IF k > 21 THEN 0 ELSE RDiv(e, Pow2(k))

\* np.argmax over a pair: the first maximum wins, so a tie gives index 0
ArgMax(pair) == IF pair[2] > pair[1] THEN 1 ELSE 0

\* np.clip(raw_prediction, epsilon, 1 - epsilon), result in units of 1 / EPS_DEN
Clip(s) == Max2(1, Min2((EPS_DEN \div SCALE) * s, EPS_DEN - 1))

\* logits / self.TEMPERATURE for a logit <= 0 and T = <<numerator, denominator>>
ScaleByTemperature(logit, T) == -RDiv((-logit) * T[2], T[1])

\* _apply_temperature_scaling: softmax(logits / T) with the max subtracted
ApplyTemperatureScaling(logits, T) ==
  LET scaled == <<ScaleByTemperature(logits[1], T), ScaleByTemperature(logits[2], T)>>
      mx == Max2(scaled[1], scaled[2])
      exp_logits == <<Exp(scaled[1] - mx), Exp(scaled[2] - mx)>>
      total == exp_logits[1] + exp_logits[2]
  IN <<FDiv(exp_logits[1], total), FDiv(exp_logits[2], total)>>

\* the calibration of predict: clip, log, temperature scaling
Calibrate(raw, T) ==
  ApplyTemperatureScaling(<<Ln(Clip(raw[1])), Ln(Clip(raw[2]))>>, T)

\* round(float(score) * 100, 2): a percentage in units of 0.01
Round2(s) == RDivEven(s, SCALE \div 10000)

\* a float that is NaN: every comparison with it is false, arithmetic on it
\* and round() of it give NaN again
NaN == -2

\* round(float(score) * 100, 2) of a score that may be NaN
Percent(s) == IF s = NaN THEN NaN ELSE Round2(s)

(***************************************************************************)
(* Inputs                                                                  *)
(***************************************************************************)
Variants == {"plain", "calibrated"}     \* ai_service / ai_service_calibrated
Paths == {"default", "alt"}             \* model_path: None (default) or given
Temperatures == {<<5, 2>>, <<10, 1>>}     \* temperature arguments of the calls
NoTemperature == <<0, 1>>               \* HeartSoundClassifier has no TEMPERATURE

\* NORMAL scores the network can give; the ABNORMAL score is SCALE minus it
RawScores == {0, 499999, 500000, 900000}

\* An uploaded or given audio file: its name's extension, whether the path
\* handed to the classifier exists, whether the decoder can read it, its
\* sample rate and number of samples, and the score pair the loaded network
\* gives to the features of this recording.  Its samples are finite numbers
\* whose spectrum is finite too, and the two scores add up to SCALE.
File(ext, present, decode, sr, len, raw) ==
  [ext |-> ext, present |-> present, decode |-> decode, sr |-> sr,
   len |-> len, raw |-> raw, values |-> "finite", loss |-> 0]

\* The same file with other sample values ("nan": a sample is NaN or inf;
\* "overflow": finite float32 samples whose power spectrum exceeds float32)
\* and with a float32 softmax pair that falls short of 1 by loss units.
Recording(f, values, loss) == [f EXCEPT !.values = values, !.loss = loss]

Files ==
  {File("wav", TRUE, "ok", FS_TARGET, 2000, r) : r \in RawScores}
  \cup {File("wav", TRUE, "ok", 2 * FS_TARGET, 18000, 900000),
        File("wav", TRUE, "ok", FS_TARGET, 0, 499999),
        File("wav", TRUE, "unreadable", FS_TARGET, 0, 0),
        File("wav", FALSE, "ok", FS_TARGET, 2000, 900000),
        File("mp3", TRUE, "ok", FS_TARGET, 2000, 900000),
        File("txt", TRUE, "unreadable", FS_TARGET, 0, 0)}

(***************************************************************************)
(* State                                                                   *)
(***************************************************************************)
VARIABLES
  classifier_instance,   \* the module global _classifier_instance of each service
  config,                \* the class attributes of each classifier class
  artifact,              \* the weight file at each model path
  allocs,                \* classifier objects constructed so far (object identity)
  builds,                \* _build_model calls of each service so far
  loads,                 \* load_weights calls of each service so far
  ncalls,                \* requests served so far
  last,                  \* the last request: what ran and what its caller got
  uploads,               \* rows of pcg_uploads joined with analysis_results
  thr,                   \* the callers of SpecThreads
  calc,                  \* a score pair, a temperature and their calibration
  trial,                 \* one recording on its way through preprocess and predict
  clinic,                \* uploads, analysis results, reviews and suggestions
  auth,                  \* users, OTP tokens, pending signups and the clock
  owned,                 \* uploads with their owners, for the access checks
  dataset_access         \* the rows of the table dataset_access

vars == <<classifier_instance, config, artifact, allocs, builds, loads,
          ncalls, last, uploads, thr, calc, trial, clinic, auth, owned, dataset_access>>

\* the state outside the inference services and their routes
aside == <<trial, clinic, auth, owned, dataset_access>>

\* None
NoInstance ==
  [id |-> 0, model_built |-> FALSE, weights_loaded |-> FALSE,
   TEMPERATURE |-> NoTemperature]

ClassConfig(v) ==
  [FS_TARGET |-> FS_TARGET, DURATION_TENTHS |-> DURATION_TENTHS,
   ANALOG_LEN |-> ANALOG_LEN, MFCC_LEN |-> MFCC_LEN, N_MFCC |-> N_MFCC,
   TEMPERATURE |-> IF v = "calibrated" THEN TEMPERATURE ELSE NoTemperature]

(***************************************************************************)
(* Model loading: the constructors and the lazy singletons                 *)
(***************************************************************************)
\* __init__ of either classifier for the weight file state art, as object
\* number id: os.path.exists, _build_model, load_weights.  The calibrated
\* class stores the temperature argument on the instance first.
Construct(v, art, temp, id) ==
  LET T == IF v = "calibrated" THEN temp ELSE NoTemperature
      obj(b, w) == [id |-> id, model_built |-> b, weights_loaded |-> w,
                    TEMPERATURE |-> T]
  IN IF art = "missing"
       THEN [ok |-> FALSE, error |-> "FileNotFoundError", built |-> 0,
             loaded |-> 0, obj |-> obj(FALSE, FALSE)]
     ELSE IF art = "corrupt"
       THEN [ok |-> FALSE, error |-> "Model weight loading failed",
             built |-> 1, loaded |-> 1, obj |-> obj(TRUE, FALSE)]
     ELSE [ok |-> TRUE, error |-> "none", built |-> 1, loaded |-> 1,
           obj |-> obj(TRUE, TRUE)]

\* a singleton check that constructs on every call
NeedsConstructionAlways(inst) == TRUE

\* `if _classifier_instance is None`
NeedsConstruction(inst) == inst = NoInstance

\* an assignment that also happens when the constructor raised
PublishAlways(ok, obj, old) == obj

\* `_classifier_instance = HeartSoundClassifier(model_path)`: the global is
\* assigned only when the constructor returns; an exception leaves it as it was
Publish(ok, obj, old) == IF ok THEN obj ELSE old

\* get_classifier / get_classifier_calibrated called with the singleton inst:
\* the singleton afterwards, what the caller gets, and the work done
GetClassifier(v, inst, art, temp, nalloc) ==
  IF NeedsConstruction(inst)
    THEN LET c == Construct(v, art, temp, nalloc + 1)
             after == Publish(c.ok, c.obj, inst)
         IN [ok |-> c.ok, error |-> c.error, instance |-> after,
             returned |-> IF c.ok THEN after ELSE NoInstance,
             allocs |-> nalloc + 1, built |-> c.built, loaded |-> c.loaded]
    ELSE [ok |-> TRUE, error |-> "none", instance |-> inst, returned |-> inst,
          allocs |-> nalloc, built |-> 0, loaded |-> 0]

(***************************************************************************)
(* The pipeline: preprocess_heart_sound and predict                        *)
(***************************************************************************)
CeilDiv(a, d) == (a + d - 1) \div d

\* preprocess_heart_sound up to the fixed-length audio: librosa.load,
\* librosa.resample when the rate differs, then trim or zero-pad to max_len
Preprocess(cfg, f) ==
  IF ~f.present \/ f.decode # "ok"
    THEN [ok |-> FALSE, decoded |-> 0, audio_len |-> 0, kept |-> 0, padded |-> 0]
    ELSE LET resampled == IF f.sr # cfg.FS_TARGET
                            THEN CeilDiv(f.len * cfg.FS_TARGET, f.sr)
                            ELSE f.len
             max_len == (cfg.FS_TARGET * cfg.DURATION_TENTHS) \div 10
             kept == IF resampled > max_len THEN max_len ELSE resampled
             padded == IF resampled > max_len THEN 0 ELSE max_len - resampled
         IN [ok |-> TRUE, decoded |-> f.len, audio_len |-> kept + padded,
             kept |-> kept, padded |-> padded]

NoResult == [label |-> "none", confidence |-> 0, normal |-> 0, abnormal |-> 0]

\* cls, confidence, prob_normal, prob_abnormal, label and the result dict
Assemble(scores) ==
  LET cls == ArgMax(scores)
  IN [label |-> IF cls = 0 THEN "NORMAL" ELSE "ABNORMAL",
      confidence |-> Percent(scores[cls + 1]),
      normal |-> Percent(scores[1]),
      abnormal |-> Percent(scores[2])]

\* the steps of predict of each service, in statement order
PredictSteps(v) ==
  IF v = "calibrated"
    THEN <<"normalize", "analog", "spectral", "classifier", "calibrator", "assemble">>
    ELSE <<"normalize", "analog", "spectral", "classifier", "assemble">>

\* the score pair predict assembles its result from; clip, log and softmax
\* of NaN scores give NaN scores
FinalScores(v, raw, T) ==
  IF v = "calibrated" /\ raw # <<NaN, NaN>> THEN Calibrate(raw, T) ELSE raw

\* model.predict on the features of f: the softmax pair in float32; features
\* that are not finite give NaN in every unit of the network
ModelPredict(f) ==
  IF f.values = "overflow" THEN <<NaN, NaN>>
                           ELSE <<f.raw, SCALE - f.raw - f.loss>>

NotRun ==
  [outcome |-> "not_run", steps |-> << >>, decoded |-> 0, audio_len |-> 0,
   padded |-> 0, raw |-> <<0, 0>>, scores |-> <<0, 0>>, result |-> NoResult]

\* a predict whose network carries state over from the calls before it: from
\* the second call of the process on the two scores come out swapped
PredictStateful(v, obj, cfg, f) ==
  LET pre == Preprocess(cfg, f)
      raw == ModelPredict(IF ncalls = 0 THEN f ELSE [f EXCEPT !.raw = SCALE - @])
      scores == FinalScores(v, raw, obj.TEMPERATURE)
  IN IF ~pre.ok \/ f.values = "nan" \/ ~obj.model_built
       THEN [NotRun EXCEPT !.outcome = "raised", !.steps = <<"normalize">>]
       ELSE [outcome |-> "result", steps |-> PredictSteps(v),
             decoded |-> pre.decoded, audio_len |-> pre.audio_len,
             padded |-> pre.padded, raw |-> raw, scores |-> scores,
             result |-> Assemble(scores)]

\* predict of service v on the instance obj: the try block, and the except
\* clause that re-raises every error as Exception("Failed to process ...")
Predict(v, obj, cfg, f) ==
  LET pre == Preprocess(cfg, f)
      raw == ModelPredict(f)
      scores == FinalScores(v, raw, obj.TEMPERATURE)
  IN IF ~pre.ok
       THEN [NotRun EXCEPT !.outcome = "raised", !.steps = <<"normalize">>]
     ELSE IF f.values = "nan"     \* librosa.feature.mfcc rejects the buffer
       THEN [NotRun EXCEPT !.outcome = "raised",
                           !.steps = <<"normalize", "analog", "spectral">>,
                           !.decoded = pre.decoded, !.audio_len = pre.audio_len,
                           !.padded = pre.padded]
     ELSE IF ~obj.model_built
       THEN [NotRun EXCEPT !.outcome = "raised",
                           !.steps = <<"normalize", "analog", "spectral", "classifier">>,
                           !.decoded = pre.decoded, !.audio_len = pre.audio_len,
                           !.padded = pre.padded]
     ELSE [outcome |-> "result", steps |-> PredictSteps(v),
           decoded |-> pre.decoded, audio_len |-> pre.audio_len,
           padded |-> pre.padded, raw |-> raw, scores |-> scores,
           result |-> Assemble(scores)]

(***************************************************************************)
(* Requests served one at a time (the handlers are coroutines of one event *)
(* loop and do not yield between get_classifier and the commit)            *)
(***************************************************************************)
ALLOWED_AUDIO_EXTENSIONS == {"wav", "mp3", "m4a", "flac"}
NullConfidence == -1

NoResponse == [code |-> 0, classification |-> "null", confidence |-> NullConfidence]

NoCall ==
  [entry |-> "none", file |-> File("txt", FALSE, "unreadable", FS_TARGET, 0, 0),
   variant |-> "plain", path |-> "default", temp |-> NoTemperature,
   analysed |-> FALSE, gc_ok |-> FALSE,
   gc_error |-> "none", instance |-> NoInstance, pred |-> NotRun,
   returned |-> "none", response |-> NoResponse]

\* the shared state after get_classifier of service v gave gc
AfterGetClassifier(v, gc) ==
  /\ classifier_instance' = [classifier_instance EXCEPT ![v] = gc.instance]
  /\ allocs' = gc.allocs
  /\ builds' = [builds EXCEPT ![v] = @ + gc.built]
  /\ loads' = [loads EXCEPT ![v] = @ + gc.loaded]

\* what run_ai_analysis hands to its caller: the result of predict, or None
\* when get_classifier or predict raised (the except clause returns None)
RunAiAnalysisReturn(gc, pred) ==
  IF gc.ok /\ pred.outcome = "result" THEN "result" ELSE "None"

\* a row that falls back to NORMAL when there is no result
AnalysisRowDefaultNormal(f, ai_result) ==
  [ext |-> f.ext, status |-> "completed",
   classification |-> IF ai_result.label = "ABNORMAL" THEN "ABNORMAL" ELSE "NORMAL",
   classification_confidence |-> ai_result.confidence,
   probability_normal |-> ai_result.normal,
   probability_abnormal |-> ai_result.abnormal,
   model_version |-> "hybrid_cnn_lstm_v1.0"]

\* the AnalysisResult row upload_pcg stores for ai_result
AnalysisRow(f, ai_result) ==
  IF ai_result # NoResult
    THEN [ext |-> f.ext, status |-> "completed",
          classification |-> IF ai_result.label = "NORMAL" THEN "NORMAL" ELSE "ABNORMAL",
          classification_confidence |-> ai_result.confidence,
          probability_normal |-> ai_result.normal,
          probability_abnormal |-> ai_result.abnormal,
          model_version |-> "hybrid_cnn_lstm_v1.0"]
    ELSE [ext |-> f.ext, status |-> "completed", classification |-> "PENDING",
          classification_confidence |-> 0, probability_normal |-> 0,
          probability_abnormal |-> 0, model_version |-> "pending"]

\* the body upload_pcg returns
UploadResponse(ai_result) ==
  [code |-> 201,
   classification |-> IF ai_result # NoResult THEN ai_result.label ELSE "null",
   confidence |-> IF ai_result # NoResult THEN ai_result.confidence
                                          ELSE NullConfidence]

\* POST /pcg/upload
UploadPcg(f) ==
  /\ ncalls < MaxCalls
  /\ ncalls' = ncalls + 1
  /\ UNCHANGED <<config, artifact, thr, calc, aside>>
  /\ IF f.ext \notin ALLOWED_AUDIO_EXTENSIONS
       THEN /\ last' = [NoCall EXCEPT !.entry = "upload_pcg", !.file = f,
                                      !.returned = "rejected",
                                      !.response = [NoResponse EXCEPT !.code = 400]]
            /\ UNCHANGED <<classifier_instance, allocs, builds, loads, uploads>>
     ELSE IF ~(f.present /\ f.ext = "wav")
       THEN /\ last' = [NoCall EXCEPT !.entry = "upload_pcg", !.file = f,
                                      !.returned = "skipped",
                                      !.response = UploadResponse(NoResult)]
            /\ uploads' = Append(uploads, AnalysisRow(f, NoResult))
            /\ UNCHANGED <<classifier_instance, allocs, builds, loads>>
     ELSE \E gc \in {GetClassifier("plain", classifier_instance["plain"],
                                   artifact["default"], NoTemperature, allocs)} :
          \E pred \in {IF gc.ok THEN Predict("plain", gc.returned, config["plain"], f)
                               ELSE NotRun} :
          LET ret == RunAiAnalysisReturn(gc, pred)
              ai_result == IF ret = "result" THEN pred.result ELSE NoResult
          IN /\ AfterGetClassifier("plain", gc)
             /\ last' = [entry |-> "upload_pcg", file |-> f, variant |-> "plain",
                         path |-> "default", temp |-> NoTemperature,
                         analysed |-> TRUE, gc_ok |-> gc.ok, gc_error |-> gc.error,
                         instance |-> gc.returned, pred |-> pred,
                         returned |-> ret, response |-> UploadResponse(ai_result)]
             /\ uploads' = Append(uploads, AnalysisRow(f, ai_result))

\* POST /ai/test-predict
TestPredict(f) ==
  /\ ncalls < MaxCalls
  /\ ncalls' = ncalls + 1
  /\ UNCHANGED <<config, artifact, thr, calc, uploads, aside>>
  /\ IF f.ext # "wav"
       THEN /\ last' = [NoCall EXCEPT !.entry = "test_predict", !.file = f,
                                      !.returned = "rejected",
                                      !.response = [NoResponse EXCEPT !.code = 400]]
            /\ UNCHANGED <<classifier_instance, allocs, builds, loads>>
       ELSE LET g == [f EXCEPT !.present = TRUE]     \* the handler writes the temp file
            IN \E gc \in {GetClassifier("plain", classifier_instance["plain"],
                                       artifact["default"], NoTemperature, allocs)} :
            \E pred \in {IF gc.ok THEN Predict("plain", gc.returned, config["plain"], g)
                                  ELSE NotRun} :
            LET ok == gc.ok /\ pred.outcome = "result"
            IN /\ AfterGetClassifier("plain", gc)
               /\ last' = [entry |-> "test_predict", file |-> f, variant |-> "plain",
                           path |-> "default", temp |-> NoTemperature,
                           analysed |-> TRUE, gc_ok |-> gc.ok, gc_error |-> gc.error,
                           instance |-> gc.returned, pred |-> pred,
                           returned |-> IF ok THEN "result" ELSE "raised",
                           response |->
                             IF ok THEN [code |-> 200,
                                         classification |-> pred.result.label,
                                         confidence |-> pred.result.confidence]
                                   ELSE [NoResponse EXCEPT !.code = 500]]

\* get_classifier(model_path).predict(file) or
\* get_classifier_calibrated(model_path, temperature).predict(file), called
\* directly as the scripts do
Classify(v, path, temp, f) ==
  /\ ncalls < MaxCalls
  /\ ncalls' = ncalls + 1
  /\ UNCHANGED <<config, artifact, thr, calc, uploads, aside>>
  /\ \E gc \in {GetClassifier(v, classifier_instance[v], artifact[path], temp, allocs)} :
     \E pred \in {IF gc.ok THEN Predict(v, gc.returned, config[v], f) ELSE NotRun} :
     LET ok == gc.ok /\ pred.outcome = "result"
     IN /\ AfterGetClassifier(v, gc)
        /\ last' = [entry |-> "classify", file |-> f, variant |-> v,
                    path |-> path, temp |-> temp,
                    analysed |-> TRUE, gc_ok |-> gc.ok, gc_error |-> gc.error,
                    instance |-> gc.returned, pred |-> pred,
                    returned |-> IF ok THEN "result" ELSE "raised",
                    response |-> NoResponse]

\* the weight file at a path is replaced, removed or damaged from outside
ArtifactChange(path, a) ==
  /\ artifact[path] # a
  /\ artifact' = [artifact EXCEPT ![path] = a]
  /\ UNCHANGED <<classifier_instance, config, allocs, builds, loads, ncalls,
                 last, uploads, thr, calc, aside>>

ArtifactStates == {"ok", "missing", "corrupt"}

\* a caller that has not called yet
NoThread ==
  [pc |-> "idle", variant |-> "plain", path |-> "default",
   temp |-> NoTemperature, obj |-> NoInstance, ret |-> NoInstance,
   outcome |-> "none"]

NoCalc == [raw |-> <<0, 0>>, T |-> NoTemperature, out |-> <<0, 0>>, done |-> FALSE]

\* a row of pcg_uploads that was never inserted, with what hangs on it
NoRow ==
  [upload |-> FALSE, deleted |-> FALSE, processing |-> FALSE,
   analysis |-> FALSE, reviewed |-> FALSE,
   doctor_classification |-> "None", commented |-> FALSE, suggestions |-> {},
   log |-> << >>]

\* the clinical tables when empty
NoClinic ==
  [rows |-> [u \in 1 .. MaxUploads |-> NoRow], next_id |-> 1,
   last |-> [op |-> "none", upload_id |-> 0, code |-> 0]]

\* None, for a column or an attribute that holds a number
None == 0

ADMIN_EMAIL == "admin@cardiosense.com"

\* the row of a user
User(id, email, role, status) ==
  [id |-> id, email |-> email, role |-> role, status |-> status,
   email_verified |-> TRUE, two_fa_enabled |-> FALSE]

\* what a request handler of the auth routes answered
AuthAnswer(op, code, otp, token) ==
  [op |-> op, code |-> code, otp |-> otp, token |-> token,
   user_id |-> None, tokens |-> FALSE]

\* after startup: the users table holds the administrator, otp_tokens and
\* pending_signups are empty
NoAuth ==
  [users |-> {User(1, ADMIN_EMAIL, "admin", "active")}, next_user_id |-> 2,
   otp_tokens |-> {}, next_otp_id |-> 1,
   pending_signups |-> {}, next_token |-> 1, jwts |-> {},
   now |-> 0, last |-> AuthAnswer("none", 0, "", None)]

\* no upload stored
NoOwned ==
  [rows |-> [u \in 1 .. MaxUploads |->
               [exists |-> FALSE, user_id |-> None, status |-> "none", result |-> FALSE]],
   next_id |-> 1,
   last |-> [op |-> "none", caller |-> None, upload_id |-> None, code |-> 0,
             data |-> FALSE]]

\* no access request made
NoDatasetAccess ==
  [rows |-> << >>,
   last |-> [op |-> "none", code |-> 0, dataset_id |-> None, researcher_id |-> None,
             request_id |-> None]]

\* no recording under way
NoTrial ==
  [pc |-> "idle", file |-> File("txt", FALSE, "unreadable", FS_TARGET, 0, 0),
   audio |-> << >>, variant |-> "plain", obj |-> NoInstance,
   norm |-> << >>, analog |-> << >>, frames |-> << >>, mfcc |-> << >>,
   pred |-> NotRun, row |-> AnalysisRow(File("txt", FALSE, "unreadable", FS_TARGET, 0, 0), NoResult)]

\* the process right after start: nothing loaded, nothing served
Started ==
  /\ classifier_instance = [v \in Variants |-> NoInstance]
  /\ config = [v \in Variants |-> ClassConfig(v)]
  /\ artifact \in [Paths -> ArtifactStates]
  /\ allocs = 0
  /\ builds = [v \in Variants |-> 0]
  /\ loads = [v \in Variants |-> 0]
  /\ ncalls = 0
  /\ last = NoCall
  /\ uploads = << >>
  /\ thr = [t \in 1 .. NumThreads |-> NoThread]

Init == Started /\ calc = NoCalc /\ trial = NoTrial /\ clinic = NoClinic /\ auth = NoAuth
        /\ owned = NoOwned /\ dataset_access = NoDatasetAccess

Next ==
  \/ \E f \in Files : UploadPcg(f)
  \/ \E f \in Files : TestPredict(f)
  \/ \E v \in Variants, path \in Paths, f \in {g \in Files : g.ext = "wav" /\ g.present} :
       \E temp \in IF v = "calibrated" THEN Temperatures ELSE {NoTemperature} :
         Classify(v, path, temp, f)
  \/ \E path \in Paths, a \in ArtifactStates : ArtifactChange(path, a)

Spec == Init /\ [][Next]_vars

(***************************************************************************)
(* Callers on threads: get_classifier and predict statement by statement.  *)
(* Nothing in get_classifier holds a lock, so the statements of different  *)
(* callers interleave freely.                                              *)
(***************************************************************************)
Threads == 1 .. NumThreads

ThreadFiles ==
  {File("wav", TRUE, "ok", FS_TARGET, 2000, 900000),
   File("wav", TRUE, "unreadable", FS_TARGET, 0, 0)}

ThreadFrame == UNCHANGED <<config, ncalls, last, uploads, calc, aside>>

\* a caller enters get_classifier() or get_classifier_calibrated()
T_Call(t, v) ==
  /\ thr[t].pc = "idle"
  /\ thr' = [thr EXCEPT ![t] = [@ EXCEPT !.pc = "check", !.variant = v,
                                         !.temp = IF v = "calibrated"
                                                    THEN TEMPERATURE
                                                    ELSE NoTemperature]]
  /\ UNCHANGED <<classifier_instance, artifact, allocs, builds, loads>>
  /\ ThreadFrame

\* `if _classifier_instance is None:` and, when it is, the constructor call:
\* a fresh object, on which the calibrated class sets its TEMPERATURE
T_Check(t) ==
  /\ thr[t].pc = "check"
  /\ IF NeedsConstruction(classifier_instance[thr[t].variant])
       THEN /\ allocs' = allocs + 1
            /\ thr' = [thr EXCEPT ![t] =
                         [@ EXCEPT !.pc = "exists",
                                   !.obj = [NoInstance EXCEPT
                                              !.id = allocs + 1,
                                              !.TEMPERATURE = thr[t].temp]]]
       ELSE /\ allocs' = allocs
            /\ thr' = [thr EXCEPT ![t] = [@ EXCEPT !.pc = "return"]]
  /\ UNCHANGED <<classifier_instance, artifact, builds, loads>>
  /\ ThreadFrame

\* `if not os.path.exists(model_path): raise FileNotFoundError`
T_Exists(t) ==
  /\ thr[t].pc = "exists"
  /\ LET v == thr[t].variant
         ok == artifact[thr[t].path] # "missing"
     IN /\ thr' = [thr EXCEPT ![t] = [@ EXCEPT !.pc = IF ok THEN "build" ELSE "raised"]]
        /\ classifier_instance' =
             [classifier_instance EXCEPT ![v] =
                IF ok THEN @ ELSE Publish(FALSE, thr[t].obj, @)]
  /\ UNCHANGED <<artifact, allocs, builds, loads>>
  /\ ThreadFrame

\* `self.model = self._build_model()`
T_Build(t) ==
  /\ thr[t].pc = "build"
  /\ thr' = [thr EXCEPT ![t] = [@ EXCEPT !.pc = "load", !.obj.model_built = TRUE]]
  /\ builds' = [builds EXCEPT ![thr[t].variant] = @ + 1]
  /\ UNCHANGED <<classifier_instance, artifact, allocs, loads>>
  /\ ThreadFrame

\* `self.model.load_weights(model_path)`; a failure is re-raised
T_Load(t) ==
  /\ thr[t].pc = "load"
  /\ LET v == thr[t].variant
         ok == artifact[thr[t].path] = "ok"
     IN /\ thr' = [thr EXCEPT ![t] =
                     [@ EXCEPT !.pc = IF ok THEN "assign" ELSE "raised",
                               !.obj.weights_loaded = ok]]
        /\ classifier_instance' =
             [classifier_instance EXCEPT ![v] =
                IF ok THEN @ ELSE Publish(FALSE, [thr[t].obj EXCEPT !.weights_loaded = ok], @)]
        /\ loads' = [loads EXCEPT ![v] = @ + 1]
  /\ UNCHANGED <<artifact, allocs, builds>>
  /\ ThreadFrame

\* `_classifier_instance = <the constructed object>`
T_Assign(t) ==
  /\ thr[t].pc = "assign"
  /\ classifier_instance' =
       [classifier_instance EXCEPT ![thr[t].variant] = Publish(TRUE, thr[t].obj, @)]
  /\ thr' = [thr EXCEPT ![t] = [@ EXCEPT !.pc = "return"]]
  /\ UNCHANGED <<artifact, allocs, builds, loads>>
  /\ ThreadFrame

\* `return _classifier_instance`
T_Return(t) ==
  /\ thr[t].pc = "return"
  /\ thr' = [thr EXCEPT ![t] = [@ EXCEPT !.pc = "have",
                                         !.ret = classifier_instance[thr[t].variant]]]
  /\ UNCHANGED <<classifier_instance, artifact, allocs, builds, loads>>
  /\ ThreadFrame

\* a predict whose except clause drops the singleton
T_PredictResetting(t, f) ==
  /\ thr[t].pc = "have"
  /\ LET pred == Predict(thr[t].variant, thr[t].ret, config[thr[t].variant], f)
     IN /\ thr' = [thr EXCEPT ![t] = [@ EXCEPT !.pc = "done", !.outcome = pred.outcome]]
        /\ classifier_instance' =
             IF pred.outcome = "raised"
               THEN [classifier_instance EXCEPT ![thr[t].variant] = NoInstance]
               ELSE classifier_instance
  /\ UNCHANGED <<artifact, allocs, builds, loads>>
  /\ ThreadFrame

\* `classifier.predict(file_path)` on the instance get_classifier returned
T_Predict(t, f) ==
  /\ thr[t].pc = "have"
  /\ LET pred == Predict(thr[t].variant, thr[t].ret, config[thr[t].variant], f)
     IN thr' = [thr EXCEPT ![t] = [@ EXCEPT !.pc = "done", !.outcome = pred.outcome]]
  /\ UNCHANGED <<classifier_instance, artifact, allocs, builds, loads>>
  /\ ThreadFrame

\* the weight file changes while callers run
T_ArtifactChange(a) ==
  /\ artifact["default"] # a
  /\ artifact' = [artifact EXCEPT !["default"] = a]
  /\ UNCHANGED <<classifier_instance, allocs, builds, loads, thr>>
  /\ ThreadFrame

NextThreads ==
  \/ \E t \in Threads, v \in Variants : T_Call(t, v)
  \/ \E t \in Threads : T_Check(t)
  \/ \E t \in Threads : T_Exists(t)
  \/ \E t \in Threads : T_Build(t)
  \/ \E t \in Threads : T_Load(t)
  \/ \E t \in Threads : T_Assign(t)
  \/ \E t \in Threads : T_Return(t)
  \/ \E t \in Threads, f \in ThreadFiles : T_Predict(t, f)
  \/ \E a \in ArtifactStates : T_ArtifactChange(a)

InitThreads == Init /\ artifact["alt"] = "ok"

SpecThreads == InitThreads /\ [][NextThreads]_vars

(***************************************************************************)
(* The calibration as a function of its inputs                             *)
(***************************************************************************)
CalRaw ==
  {0, 1, 1000, 100000, 250000, 400000, 499990, 499999, 500000, 500001,
   500010, 600000, 750000, 900000, 999000, 999999, SCALE}

CalTemps == {<<1, 10>>, <<1, 2>>, <<1, 1>>, <<3, 2>>, <<5, 2>>, <<10, 1>>, <<1000, 1>>}

\* lines 211-216 of the calibrated predict applied to calc.raw with calc.T
ApplyCalibration ==
  /\ ~calc.done
  /\ calc' = [calc EXCEPT !.out = Calibrate(calc.raw, calc.T), !.done = TRUE]
  /\ UNCHANGED <<classifier_instance, config, artifact, allocs, builds, loads,
                 ncalls, last, uploads, thr, aside>>

InitCalibrate ==
  /\ Started
  /\ artifact = [p \in Paths |-> "ok"]
  /\ calc \in {[NoCalc EXCEPT !.raw = <<r, SCALE - r>>, !.T = T] :
                 r \in CalRaw, T \in CalTemps}
  /\ trial = NoTrial
  /\ clinic = NoClinic
  /\ auth = NoAuth
  /\ owned = NoOwned
  /\ dataset_access = NoDatasetAccess

NextCalibrate == ApplyCalibration

SpecCalibrate == InitCalibrate /\ [][NextCalibrate]_vars

(***************************************************************************)
(* One recording through preprocess_heart_sound and predict, statement by  *)
(* statement, on a loaded classifier.  The decoded samples are a sequence  *)
(* of numbers; filters and transforms are modelled by the shape of what    *)
(* they return and by which samples they read.                             *)
(***************************************************************************)
HOP_LENGTH == 512        \* hop of librosa.feature.mfcc when none is given

\* librosa.resample(audio, orig_sr = sr, target_sr = target): ceil(L * ratio)
\* samples, each read near the same instant of the input
Resample(audio, sr, target) ==
  [k \in 1 .. CeilDiv(Len(audio) * target, sr) |->
     audio[Min2(Len(audio), ((k - 1) * sr) \div target + 1)]]

\* a normalisation that keeps the last samples and pads in front
PadOrTrimFront(audio, max_len) ==
  IF Len(audio) > max_len
    THEN SubSeq(audio, Len(audio) - max_len + 1, Len(audio))
    ELSE [i \in 1 .. max_len - Len(audio) |-> 0] \o audio

\* `audio[:max_len]` when longer, `np.pad(audio, (0, max_len - len(audio)))`
\* otherwise
PadOrTrim(audio, max_len) ==
  IF Len(audio) > max_len
    THEN SubSeq(audio, 1, max_len)
    ELSE audio \o [i \in 1 .. max_len - Len(audio) |-> 0]

\* signal.filtfilt keeps the length; resample(analog, ANALOG_LEN) returns
\* ANALOG_LEN values spread over the whole signal
AnalogFeature(audio, n) ==
  [k \in 1 .. n |-> audio[((k - 1) * Len(audio)) \div n + 1]]

\* librosa.feature.mfcc(...).T: one row of n_mfcc coefficients per hop, the
\* frames centred on samples 0, hop, 2 hop, ...; the first coefficient of a
\* row is the level of the frame, which is not zero even for silence
MfccFrames(audio, n_mfcc) ==
  [j \in 1 .. 1 + Len(audio) \div HOP_LENGTH |->
     [c \in 1 .. n_mfcc |->
        IF c = 1 THEN -1 - (IF audio[Min2(Len(audio), (j - 1) * HOP_LENGTH + 1)] < 0
                              THEN -audio[Min2(Len(audio), (j - 1) * HOP_LENGTH + 1)]
                              ELSE audio[Min2(Len(audio), (j - 1) * HOP_LENGTH + 1)])
                 ELSE 0]]

\* a frame list cut to its first rows and never padded
FitFramesTrimOnly(mfcc, mfcc_len, n_mfcc) ==
  IF Len(mfcc) > mfcc_len THEN SubSeq(mfcc, 1, mfcc_len) ELSE mfcc

\* `mfcc[:MFCC_LEN]` when longer, np.pad with zero rows at the end when shorter
FitFrames(mfcc, mfcc_len, n_mfcc) ==
  IF Len(mfcc) > mfcc_len
    THEN SubSeq(mfcc, 1, mfcc_len)
  ELSE IF Len(mfcc) < mfcc_len
    THEN mfcc \o [i \in 1 .. mfcc_len - Len(mfcc) |-> [c \in 1 .. n_mfcc |-> 0]]
  ELSE mfcc

\* decoded samples: a periodic wave of the given amplitude, silence when 0
Wave(len, amp) == [i \in 1 .. len |-> amp * ((i % 7) - 3)]

TrialLengths == {0, 1, 5999, 6000, 6001, 9000}
TrialScores == {0, 900000}
TrialAmps == {0, 1, 2}

\* recordings at the target rate, recordings at other rates, and recordings
\* whose numbers are at the limits of float32
TrialFiles ==
  {File("wav", TRUE, "ok", FS_TARGET, n, r) : n \in TrialLengths, r \in TrialScores}
  \cup {File("wav", TRUE, "ok", 2 * FS_TARGET, 18000, 900000),
        File("wav", TRUE, "ok", FS_TARGET \div 2, 1500, 900000),
        File("wav", TRUE, "unreadable", FS_TARGET, 0, 0),
        Recording(File("wav", TRUE, "ok", FS_TARGET, 6000, 900000), "nan", 0),
        Recording(File("wav", TRUE, "ok", FS_TARGET, 6000, 900000), "overflow", 0),
        Recording(File("wav", TRUE, "ok", FS_TARGET, 6000, 123349), "finite", 1)}

TrialFrame ==
  UNCHANGED <<classifier_instance, config, artifact, allocs, builds, loads,
              ncalls, last, uploads, thr, calc, clinic, auth, owned, dataset_access>>

\* preprocess_heart_sound, lines 114-125: load, resample, pad or trim
P_Normalize ==
  /\ trial.pc = "start"
  /\ \E pre \in {Preprocess(config[trial.variant], trial.file)} :
       IF ~pre.ok
         THEN trial' = [trial EXCEPT !.pc = "raised",
                          !.pred = Predict(trial.variant, trial.obj,
                                           config[trial.variant], trial.file)]
         ELSE \E cfg \in {config[trial.variant]} :
              \E audio \in {IF trial.file.sr # cfg.FS_TARGET
                               THEN Resample(trial.audio, trial.file.sr, cfg.FS_TARGET)
                               ELSE trial.audio} :
                trial' = [trial EXCEPT
                            !.pc = "normalized",
                            !.norm = PadOrTrim(audio, (cfg.FS_TARGET * cfg.DURATION_TENTHS) \div 10)]
  /\ TrialFrame

\* preprocess_heart_sound, lines 127-147: the analog and the MFCC branch
P_Features ==
  /\ trial.pc = "normalized"
  /\ \E cfg \in {config[trial.variant]} :
       IF trial.file.values = "nan"
         THEN trial' = [trial EXCEPT !.pc = "raised",
                          !.analog = AnalogFeature(trial.norm, cfg.ANALOG_LEN),
                          !.pred = Predict(trial.variant, trial.obj, cfg, trial.file)]
         ELSE \E frames \in {MfccFrames(trial.norm, cfg.N_MFCC)} :
                trial' = [trial EXCEPT
                            !.pc = "features",
                            !.analog = AnalogFeature(trial.norm, cfg.ANALOG_LEN),
                            !.frames = frames,
                            !.mfcc = FitFrames(frames, cfg.MFCC_LEN, cfg.N_MFCC)]
  /\ TrialFrame

\* predict from model.predict to the returned dict, and the row upload_pcg
\* stores from that dict
P_Classify ==
  /\ trial.pc = "features"
  /\ \E pred \in {Predict(trial.variant, trial.obj, config[trial.variant], trial.file)} :
       trial' = [trial EXCEPT !.pc = "done", !.pred = pred,
                              !.row = AnalysisRow(trial.file, pred.result)]
  /\ TrialFrame

InitPipeline ==
  /\ Started
  /\ artifact = [p \in Paths |-> "ok"]
  /\ calc = NoCalc
  /\ clinic = NoClinic
  /\ auth = NoAuth
  /\ owned = NoOwned
  /\ dataset_access = NoDatasetAccess
  /\ \E f \in TrialFiles, v \in Variants :
       \E amp \in IF f.values = "finite" THEN TrialAmps ELSE TrialAmps \ {0},
          T \in IF v = "calibrated" THEN Temperatures ELSE {NoTemperature} :
         trial = [NoTrial EXCEPT !.pc = "start", !.file = f,
                                 !.audio = Wave(f.len, amp), !.variant = v,
                                 !.obj = Construct(v, "ok", T, 1).obj]

NextPipeline == P_Normalize \/ P_Features \/ P_Classify

SpecPipeline == InitPipeline /\ [][NextPipeline]_vars

(***************************************************************************)
(* The clinical workflow on the tables pcg_uploads, analysis_results and   *)
(* researcher_suggestions: upload_pcg (its two commits), review_analysis,  *)
(* add_doctor_comment, submit_suggestion and delete_upload.  Each row of   *)
(* the model is an upload id with everything that refers to it; log keeps  *)
(* the first occurrence of each kind of stored event.                      *)
(***************************************************************************)
UploadIds == 1 .. MaxUploads
Researchers == {"r1", "r2"}
Overrides == {"None", "NORMAL", "abnormal", "MURMUR"}   \* classification_override

ClinicFrame ==
  UNCHANGED <<classifier_instance, config, artifact, allocs, builds, loads,
              ncalls, last, uploads, thr, calc, trial, auth, owned, dataset_access>>

\* str.upper() on the override values of the model
Upper(str) == IF str = "abnormal" THEN "ABNORMAL" ELSE str

Logged(row, event) ==
  IF \E i \in 1 .. Len(row.log) : row.log[i] = event
    THEN row.log
    ELSE Append(row.log, event)

Answer(op, u, code) == [op |-> op, upload_id |-> u, code |-> code]

\* upload_pcg up to its first commit: the pcg_uploads row, status PROCESSING
K_UploadCommit ==
  /\ clinic.next_id <= MaxUploads
  /\ clinic' = [clinic EXCEPT
                  !.rows[clinic.next_id] =
                     [NoRow EXCEPT !.upload = TRUE, !.processing = TRUE,
                                   !.log = <<"upload">>],
                  !.next_id = @ + 1,
                  !.last = Answer("upload", clinic.next_id, 0)]
  /\ ClinicFrame

\* upload_pcg from the analysis to its second commit: the analysis_results
\* row, created whether the analysis gave a result or not
K_AnalysisCommit(u) ==
  /\ clinic.rows[u].upload /\ clinic.rows[u].processing
  /\ clinic' = [clinic EXCEPT
                  !.rows[u] = [@ EXCEPT !.processing = FALSE, !.analysis = TRUE,
                                        !.log = Logged(clinic.rows[u], "analysis")],
                  !.last = Answer("upload", u, 201)]
  /\ ClinicFrame

\* POST /doctor/review/{upload_id}
K_Review(u, override) ==
  /\ IF ~clinic.rows[u].analysis
       THEN clinic' = [clinic EXCEPT !.last = Answer("review", u, 404)]
       ELSE clinic' = [clinic EXCEPT
                         !.rows[u] =
                            [@ EXCEPT !.reviewed = TRUE,
                                      !.doctor_classification =
                                         IF override # "None"
                                            /\ Upper(override) \in {"NORMAL", "ABNORMAL"}
                                           THEN Upper(override) ELSE @,
                                      !.log = Logged(clinic.rows[u], "review")],
                         !.last = Answer("review", u, 200)]
  /\ ClinicFrame

\* POST /doctor/add-comment/{upload_id}
K_AddComment(u) ==
  /\ IF ~clinic.rows[u].analysis
       THEN clinic' = [clinic EXCEPT !.last = Answer("add_comment", u, 404)]
       ELSE clinic' = [clinic EXCEPT !.rows[u].commented = TRUE,
                                     !.last = Answer("add_comment", u, 200)]
  /\ ClinicFrame

\* a check that asks for an analysis result only
SuggestionAllowedOnAnalysis(row) == row.analysis

\* `if not analysis or not analysis.doctor_classification` passes
SuggestionAllowed(row) == row.analysis /\ row.doctor_classification # "None"

\* POST /researcher/suggest/{upload_id}: insert, or update the researcher's
\* existing suggestion
K_Suggest(u, r) ==
  /\ IF ~clinic.rows[u].upload
       THEN clinic' = [clinic EXCEPT !.last = Answer("suggest", u, 404)]
     ELSE IF ~SuggestionAllowed(clinic.rows[u])
       THEN clinic' = [clinic EXCEPT !.last = Answer("suggest", u, 400)]
     ELSE clinic' = [clinic EXCEPT
                       !.rows[u] = [@ EXCEPT !.suggestions = @ \cup {r},
                                             !.log = Logged(clinic.rows[u], "suggestion")],
                       !.last = Answer("suggest", u, 200)]
  /\ ClinicFrame

\* DELETE /pcg/{upload_id}: the row goes, and with it its analysis result
\* and its suggestions (cascade); the id is not given out again
K_Delete(u) ==
  /\ IF ~clinic.rows[u].upload
       THEN clinic' = [clinic EXCEPT !.last = Answer("delete", u, 404)]
       ELSE clinic' = [clinic EXCEPT !.rows[u] = [NoRow EXCEPT !.deleted = TRUE],
                                     !.last = Answer("delete", u, 200)]
  /\ ClinicFrame

NextClinic ==
  \/ K_UploadCommit
  \/ \E u \in UploadIds : K_AnalysisCommit(u)
  \/ \E u \in UploadIds, override \in Overrides : K_Review(u, override)
  \/ \E u \in UploadIds : K_AddComment(u)
  \/ \E u \in UploadIds, r \in Researchers : K_Suggest(u, r)
  \/ \E u \in UploadIds : K_Delete(u)

InitClinic == Init /\ artifact = [p \in Paths |-> "ok"]

SpecClinic == InitClinic /\ [][NextClinic]_vars

(***************************************************************************)
(* Registration: signup and verify_signup_otp on the users and otp_tokens  *)
(* tables and the dict pending_signups.  A signup token is                 *)
(* secrets.token_urlsafe(32): every call yields a token not seen before.   *)
(* Time is counted in minutes.                                             *)
(***************************************************************************)
SIGNUP_OTP_MINUTES == 15

AuthFrame ==
  UNCHANGED <<classifier_instance, config, artifact, allocs, builds, loads,
              ncalls, last, uploads, thr, calc, trial, clinic, owned, dataset_access>>

UserRoles == {"patient", "doctor", "researcher", "admin"}     \* UserRole

\* the signup forms a client sends
Form(role, email, passwords_match, license_document) ==
  [role |-> role, email |-> email, passwords_match |-> passwords_match,
   license_document |-> license_document]

SignupForms ==
  {Form("patient", "A@x.org", TRUE, FALSE),
   Form("doctor", "a@x.org", TRUE, TRUE),
   Form("nurse", "b@x.org", TRUE, FALSE),
   Form("patient", "b@x.org", FALSE, FALSE),
   Form("researcher", ADMIN_EMAIL, TRUE, FALSE)}

Codes == {"111111", "222222"}                                 \* generate_otp()

\* str.lower() on the addresses of the model
Lower(email) == IF email = "A@x.org" THEN "a@x.org" ELSE email

\* the fields the schemas declare
SignupResponseFields == {"user_id", "pending_verification", "message"}
OTPVerifyRequestFields == {"user_id", "temp_token", "otp"}

\* SignupResponse(**kwargs): user_id is declared int, a None is refused;
\* keyword arguments that are not fields are dropped
SignupResponse(kwargs) ==
  IF kwargs.user_id = None
    THEN [error |-> "ValidationError"]
    ELSE [f \in SignupResponseFields \cap DOMAIN kwargs |-> kwargs[f]]

\* the request object FastAPI builds from a JSON body: the declared fields,
\* absent optional ones None, keys that are not fields dropped
OTPVerifyRequest(body) ==
  [f \in OTPVerifyRequestFields |-> IF f \in DOMAIN body THEN body[f] ELSE None]

\* the JSON bodies a client sends to /verify-signup-otp
VerifyBodies ==
  {[otp |-> c, signup_token |-> t] : c \in Codes, t \in 1 .. MaxSignups + 1}

\* OTPToken.is_valid
is_valid(otp_token, now) == otp_token.expires_at > now /\ otp_token.used = None

\* a signup that creates the user at once
StoreSignupAsUser(a, email, role, document, otp_code) ==
  [a EXCEPT !.users = @ \cup {User(a.next_user_id, email, role, "pending")},
            !.next_user_id = @ + 1,
            !.next_token = @ + 1]

\* signup, lines 88-143: the entry of pending_signups and the row of
\* otp_tokens, committed
StoreSignup(a, email, role, document, otp_code) ==
  [a EXCEPT !.pending_signups =
               @ \cup {[token |-> a.next_token, email |-> email, role |-> role,
                        license_document |-> document]},
            !.otp_tokens =
               @ \cup {[id |-> a.next_otp_id, user_id |-> None, otp_code |-> otp_code,
                        token_type |-> "SIGNUP_VERIFY", temp_token |-> a.next_token,
                        expires_at |-> a.now + SIGNUP_OTP_MINUTES, used |-> None]},
            !.next_otp_id = @ + 1,
            !.next_token = @ + 1]

\* POST /auth/signup/{role}
A_Signup(role, email, passwords_match, document, otp_code) ==
  /\ IF role \notin UserRoles \/ ~passwords_match
          \/ (\E u \in auth.users : u.email = Lower(email))
       THEN auth' = [auth EXCEPT !.last = AuthAnswer("signup", 400, "", None)]
       ELSE /\ auth.next_token <= MaxSignups
            /\ \E stored \in {StoreSignup(auth, Lower(email), role, document, otp_code)} :
                 \E response \in {SignupResponse([user_id |-> None,
                                                   pending_verification |-> TRUE,
                                                   message |-> "Signup initiated",
                                                   signup_token |-> auth.next_token])} :
                   auth' = [stored EXCEPT
                              !.last =
                                 IF "error" \in DOMAIN response
                                   THEN AuthAnswer("signup", 500, "", None)
                                   ELSE AuthAnswer("signup", 201, "",
                                                   IF "signup_token" \in DOMAIN response
                                                     THEN response.signup_token ELSE None)]
  /\ AuthFrame

\* verify_signup_otp from the query on: lines 187-289
CompleteSignup(a, otp, signup_token) ==
  LET rows == {o \in a.otp_tokens :
                 /\ o.otp_code = otp /\ o.temp_token = signup_token
                 /\ o.token_type = "SIGNUP_VERIFY" /\ o.used = None}
      entries == {p \in a.pending_signups : p.token = signup_token}
      reject(code) == {[a EXCEPT !.last = AuthAnswer("verify_signup_otp", code, otp, signup_token)]}
  IN  IF rows = {} THEN reject(400)
      ELSE IF \E o \in rows : ~is_valid(o, a.now) THEN reject(400)
      ELSE IF entries = {} THEN reject(400)
      ELSE IF \E p \in entries, u \in a.users : u.email = p.email THEN reject(500)
      ELSE {[a EXCEPT
               !.users = @ \cup {User(a.next_user_id, p.email, p.role,
                                      IF p.role = "patient" THEN "active" ELSE "pending")},
               !.next_user_id = @ + 1,
               !.otp_tokens = (@ \ {o}) \cup {[o EXCEPT !.used = a.now + 1]},
               !.pending_signups = @ \ {p},
               !.last = AuthAnswer("verify_signup_otp", 200, otp, signup_token)] :
             o \in rows, p \in entries}

\* POST /auth/verify-signup-otp: the handler reads request.signup_token, an
\* attribute the request has only if the schema declares it
A_VerifySignupOtp(body) ==
  /\ auth.next_token > 1
  /\ \E request \in {OTPVerifyRequest(body)} :
       IF "signup_token" \notin DOMAIN request
         THEN auth' = [auth EXCEPT !.last =
                         AuthAnswer("verify_signup_otp", 500, request.otp, body.signup_token)]
         ELSE auth' \in CompleteSignup(auth, request.otp, request.signup_token)
  /\ AuthFrame

\* time passes
A_Tick ==
  /\ auth.now < MaxTicks * SIGNUP_OTP_MINUTES
  /\ auth' = [auth EXCEPT !.now = @ + SIGNUP_OTP_MINUTES]
  /\ AuthFrame

NextAuth ==
  \/ \E form \in SignupForms, otp_code \in Codes :
       A_Signup(form.role, form.email, form.passwords_match,
                form.license_document, otp_code)
  \/ \E body \in VerifyBodies : A_VerifySignupOtp(body)
  \/ A_Tick

InitAuth == Init /\ artifact = [p \in Paths |-> "ok"]

SpecAuth == InitAuth /\ [][NextAuth]_vars

(***************************************************************************)
(* Sessions: login, the two-factor step, password reset, token refresh and *)
(* the administrator's actions on accounts.  The users table is what the   *)
(* database held when the process started: the administrator and one       *)
(* doctor.  A JWT is modelled by its payload; the temp token, which is     *)
(* stored in a string column, by a number that encodes its payload.        *)
(***************************************************************************)
OTP_EXPIRE_MINUTES == 15
TEMP_TOKEN_MINUTES == 15
ACCESS_TOKEN_EXPIRE_MINUTES == 30
REFRESH_TOKEN_EXPIRE_MINUTES == 10080      \* REFRESH_TOKEN_EXPIRE_DAYS = 7
JwtBase == 1000

DOCTOR_EMAIL == "d@x.org"

\* create_temp_token: the same user and the same expiry give the same token
create_temp_token(user_id, now) == JwtBase * user_id + now + TEMP_TOKEN_MINUTES

\* create_access_token, create_refresh_token
create_access_token(user_id, now) ==
  [type |-> "access", sub |-> user_id, exp |-> now + ACCESS_TOKEN_EXPIRE_MINUTES,
   signed |-> TRUE]

create_refresh_token(user_id, now) ==
  [type |-> "refresh", sub |-> user_id, exp |-> now + REFRESH_TOKEN_EXPIRE_MINUTES,
   signed |-> TRUE]

\* a token that was not signed with SECRET_KEY
Forged == [type |-> "refresh", sub |-> 1, exp |-> REFRESH_TOKEN_EXPIRE_MINUTES,
           signed |-> FALSE]

\* verify_token: the payload, or None
verify_token(token, token_type, now) ==
  token.signed /\ token.exp > now /\ token.type = token_type

\* the row of users with this id / this address, as a set
UserById(a, id) == {u \in a.users : u.id = id}
UserByEmail(a, email) == {u \in a.users : u.email = email}

SetStatus(a, user, status) ==
  [a EXCEPT !.users = (@ \ {user}) \cup {[user EXCEPT !.status = status]}]

\* the answer of a handler that returns access and refresh tokens for user
Granted(a, op, otp, token, user) ==
  [a EXCEPT !.jwts = @ \cup {create_access_token(user.id, a.now),
                              create_refresh_token(user.id, a.now)},
            !.last = [AuthAnswer(op, 200, otp, token) EXCEPT
                        !.user_id = user.id, !.tokens = TRUE]]

Refused(a, op, code, otp, token) ==
  [a EXCEPT !.last = AuthAnswer(op, code, otp, token)]

\* the value of the column used once a row is used: only whether it is None
\* is ever read
UsedAt(now) == 1

\* create_otp without the update that retires the earlier rows
create_otp_keeping(a, user_id, otp_type, temp_token, otp_code) ==
  [a EXCEPT !.otp_tokens =
               @ \cup {[id |-> a.next_otp_id, user_id |-> user_id, otp_code |-> otp_code,
                        token_type |-> otp_type, temp_token |-> temp_token,
                        expires_at |-> a.now + OTP_EXPIRE_MINUTES, used |-> None]},
            !.next_otp_id = @ + 1]

\* OTPService.create_otp: the unused rows of the user and type are marked
\* used, then the new row is added
create_otp(a, user_id, otp_type, temp_token, otp_code) ==
  [a EXCEPT !.otp_tokens =
               {IF o.user_id = user_id /\ o.token_type = otp_type /\ o.used = None
                  THEN [o EXCEPT !.used = UsedAt(a.now)] ELSE o : o \in a.otp_tokens}
               \cup {[id |-> a.next_otp_id, user_id |-> user_id, otp_code |-> otp_code,
                       token_type |-> otp_type, temp_token |-> temp_token,
                       expires_at |-> a.now + OTP_EXPIRE_MINUTES, used |-> None]},
            !.next_otp_id = @ + 1]

\* the rows the query of verify_otp selects; a filter is applied only for
\* an argument that is truthy
OtpQuery(a, otp_code, user_id, temp_token, otp_type) ==
  {o \in a.otp_tokens :
     /\ o.otp_code = otp_code /\ o.used = None
     /\ (user_id # None => o.user_id = user_id)
     /\ (temp_token # None => o.temp_token = temp_token)
     /\ (otp_type # "None" => o.token_type = otp_type)}

\* verify_otp that leaves the row as it was
verify_otp_keeping(a, otp_code, user_id, temp_token, otp_type) ==
  LET rows == OtpQuery(a, otp_code, user_id, temp_token, otp_type)
  IN  IF rows = {}
        THEN {[is_valid |-> FALSE, otp_token |-> None, a |-> a]}
        ELSE {[is_valid |-> is_valid(o, a.now), otp_token |-> o.id, a |-> a] : o \in rows}

\* OTPService.verify_otp: .first() takes any one of the selected rows; an
\* accepted row is marked used and committed
verify_otp(a, otp_code, user_id, temp_token, otp_type) ==
  LET rows == OtpQuery(a, otp_code, user_id, temp_token, otp_type)
  IN  IF rows = {}
        THEN {[is_valid |-> FALSE, otp_token |-> None, a |-> a]}
        ELSE {IF is_valid(o, a.now)
                THEN [is_valid |-> TRUE, otp_token |-> o.id,
                      a |-> [a EXCEPT !.otp_tokens =
                                        (@ \ {o}) \cup {[o EXCEPT !.used = UsedAt(a.now)]}]]
                ELSE [is_valid |-> FALSE, otp_token |-> o.id, a |-> a] : o \in rows}

\* get_user_by_temp_token
get_user_by_temp_token(a, temp_token) ==
  LET rows == {o \in a.otp_tokens : o.temp_token = temp_token /\ o.used = None}
  IN  IF rows = {} THEN {None}
      ELSE {IF is_valid(o, a.now) /\ UserById(a, o.user_id) # {}
              THEN o.user_id ELSE None : o \in rows}

\* get_current_user / require_role: the user of an access token, if the
\* token is good, the user exists, is not suspended and has an allowed role
Caller(a, jwt, allowed_roles) ==
  {u \in a.users :
     /\ verify_token(jwt, "access", a.now)
     /\ u.id = jwt.sub
     /\ u.status # "suspended"
     /\ u.role \in allowed_roles}

LoginEmails == {ADMIN_EMAIL, "D@x.org", "nobody@x.org"}
LowerLogin(email) == IF email = "D@x.org" THEN DOCTOR_EMAIL ELSE email

\* POST /auth/login
S_Login(email, password_ok, otp_code) ==
  /\ \E found \in {UserByEmail(auth, LowerLogin(email))} :
       IF found = {} \/ ~password_ok
         THEN auth' = Refused(auth, "login", 401, "", None)
         ELSE \E user \in found :
                IF user.status \in {"pending", "suspended", "rejected"}
                  THEN auth' = [Refused(auth, "login", 403, "", None) EXCEPT
                                  !.last.user_id = user.id]
                ELSE IF user.two_fa_enabled
                  THEN /\ auth.next_otp_id <= MaxOtps
                       /\ \E temp_token \in {create_temp_token(user.id, auth.now)} :
                            auth' = [create_otp(auth, user.id, "LOGIN_2FA", temp_token, otp_code)
                                       EXCEPT !.last =
                                         [AuthAnswer("login", 200, "", temp_token) EXCEPT
                                            !.user_id = user.id]]
                ELSE auth' = Granted(auth, "login", "", None, user)
  /\ AuthFrame

\* POST /auth/send-login-otp
S_SendLoginOtp(temp_token, otp_code) ==
  /\ IF temp_token = None
       THEN auth' = Refused(auth, "send_login_otp", 400, "", temp_token)
       ELSE \E user_id \in get_user_by_temp_token(auth, temp_token) :
              IF user_id = None
                THEN auth' = Refused(auth, "send_login_otp", 400, "", temp_token)
                ELSE /\ auth.next_otp_id <= MaxOtps
                     /\ auth' = [create_otp(auth, user_id, "LOGIN_2FA", temp_token, otp_code)
                                   EXCEPT !.last =
                                     [AuthAnswer("send_login_otp", 200, "", temp_token)
                                        EXCEPT !.user_id = user_id]]
  /\ AuthFrame

\* POST /auth/verify-login-otp
S_VerifyLoginOtp(otp, temp_token) ==
  /\ \E v \in verify_otp(auth, otp, None, temp_token, "LOGIN_2FA") :
       IF ~v.is_valid
         THEN auth' = Refused(auth, "verify_login_otp", 400, otp, temp_token)
         ELSE \E o \in {r \in auth.otp_tokens : r.id = v.otp_token} :
                IF UserById(v.a, o.user_id) = {}
                  THEN auth' = Refused(v.a, "verify_login_otp", 404, otp, temp_token)
                  ELSE \E user \in UserById(v.a, o.user_id) :
                         auth' = Granted(v.a, "verify_login_otp", otp, temp_token, user)
  /\ AuthFrame

\* POST /auth/forgot-password
S_ForgotPassword(email, otp_code) ==
  /\ \E found \in {UserByEmail(auth, LowerLogin(email))} :
       IF found = {}
         THEN auth' = Refused(auth, "forgot_password", 200, "", None)
         ELSE /\ auth.next_otp_id <= MaxOtps
              /\ \E user \in found :
                   auth' = [create_otp(auth, user.id, "PASSWORD_RESET", None, otp_code)
                              EXCEPT !.last =
                                [AuthAnswer("forgot_password", 200, "", None) EXCEPT
                                   !.user_id = user.id]]
  /\ AuthFrame

\* POST /auth/reset-password (the schema has refused passwords that differ)
S_ResetPassword(token) ==
  /\ \E v \in verify_otp(auth, token, None, None, "PASSWORD_RESET") :
       IF ~v.is_valid
         THEN auth' = Refused(auth, "reset_password", 400, token, None)
         ELSE \E o \in {r \in auth.otp_tokens : r.id = v.otp_token} :
                auth' = [Refused(v.a, "reset_password", 200, token, None) EXCEPT
                           !.last.user_id = o.user_id]
  /\ AuthFrame

\* POST /auth/refresh-token
S_RefreshToken(refresh_token) ==
  /\ IF ~verify_token(refresh_token, "refresh", auth.now)
       THEN auth' = Refused(auth, "refresh_token", 401, "", None)
     ELSE IF UserById(auth, refresh_token.sub) = {}
       THEN auth' = Refused(auth, "refresh_token", 404, "", None)
     ELSE \E user \in UserById(auth, refresh_token.sub) :
            auth' = Granted(auth, "refresh_token", "", None, user)
  /\ AuthFrame

\* DELETE /user/account
S_DeleteAccount(jwt) ==
  /\ IF Caller(auth, jwt, UserRoles) = {}
       THEN auth' = Refused(auth, "delete_account", 401, "", None)
       ELSE \E user \in Caller(auth, jwt, UserRoles) :
              auth' = [Refused(SetStatus(auth, user, "suspended"),
                               "delete_account", 200, "", None) EXCEPT
                         !.last.user_id = user.id]
  /\ AuthFrame

AdminActions == {"verify", "Suspend", "activate", "reject", "delete", "ban"}
ActionLower(action) == IF action = "Suspend" THEN "suspend" ELSE action

\* POST /admin/users/{user_id}/action
S_UserAction(jwt, user_id, action) ==
  /\ IF Caller(auth, jwt, {"admin"}) = {}
       THEN auth' = Refused(auth, "user_action", 401, "", None)
     ELSE IF UserById(auth, user_id) = {}
       THEN auth' = Refused(auth, "user_action", 404, "", None)
     ELSE \E user \in UserById(auth, user_id) :
            \E act \in {ActionLower(action)} :
              \E done \in {[Refused(auth, "user_action", 200, "", None) EXCEPT
                               !.last.user_id = user_id]} :
                IF act = "verify" THEN auth' = SetStatus(done, user, "active")
                ELSE IF act = "suspend" THEN auth' = SetStatus(done, user, "suspended")
                ELSE IF act = "activate" THEN auth' = SetStatus(done, user, "active")
                ELSE IF act = "reject" THEN auth' = SetStatus(done, user, "rejected")
                ELSE IF act = "delete"
                  THEN auth' = [done EXCEPT
                                  !.users = @ \ {user},
                                  !.otp_tokens = {o \in @ : o.user_id # user_id}]
                ELSE auth' = Refused(auth, "user_action", 400, "", None)
  /\ AuthFrame

\* approve_user, lines 325-329: the test on the status
ApproveGuard(user) == user.status = "pending"

\* reject_user has no test on the status
RejectGuard(user) == TRUE

\* POST /admin/approve/{user_id}
S_ApproveUser(jwt, user_id) ==
  /\ IF Caller(auth, jwt, {"admin"}) = {}
       THEN auth' = Refused(auth, "approve_user", 401, "", None)
     ELSE IF UserById(auth, user_id) = {}
       THEN auth' = Refused(auth, "approve_user", 404, "", None)
     ELSE \E user \in UserById(auth, user_id) :
            IF ~ApproveGuard(user)
              THEN auth' = [Refused(auth, "approve_user", 400, "", None) EXCEPT
                              !.last.user_id = user_id]
              ELSE auth' = [Refused(SetStatus(auth, user, "active"),
                                    "approve_user", 200, "", None) EXCEPT
                              !.last.user_id = user_id]
  /\ AuthFrame

\* POST /admin/reject/{user_id}
S_RejectUser(jwt, user_id) ==
  /\ IF Caller(auth, jwt, {"admin"}) = {}
       THEN auth' = Refused(auth, "reject_user", 401, "", None)
     ELSE IF UserById(auth, user_id) = {}
       THEN auth' = Refused(auth, "reject_user", 404, "", None)
     ELSE \E user \in UserById(auth, user_id) :
            IF ~RejectGuard(user)
              THEN auth' = [Refused(auth, "reject_user", 400, "", None) EXCEPT
                              !.last.user_id = user_id]
              ELSE auth' = [Refused(SetStatus(auth, user, "rejected"),
                                    "reject_user", 200, "", None) EXCEPT
                              !.last.user_id = user_id]
  /\ AuthFrame

\* the temp tokens and JWTs a client can send
KnownTempTokens == {None} \cup {o.temp_token : o \in auth.otp_tokens}
KnownJwts == auth.jwts \cup {Forged}
UserIds == 1 .. 3

\* login with the two-factor step
NextOtp ==
  \/ \E email \in LoginEmails, password_ok \in BOOLEAN, otp_code \in Codes :
       S_Login(email, password_ok, otp_code)
  \/ \E temp_token \in KnownTempTokens, otp_code \in Codes :
       S_SendLoginOtp(temp_token, otp_code)
  \/ \E otp \in Codes, temp_token \in KnownTempTokens : S_VerifyLoginOtp(otp, temp_token)
  \/ A_Tick

\* password reset
NextReset ==
  \/ \E email \in LoginEmails, otp_code \in Codes : S_ForgotPassword(email, otp_code)
  \/ \E token \in Codes : S_ResetPassword(token)
  \/ A_Tick

\* the accounts: login, token refresh and what changes a status
NextAccounts ==
  \/ \E email \in LoginEmails, password_ok \in BOOLEAN :
       S_Login(email, password_ok, "111111")
  \/ \E temp_token \in KnownTempTokens : S_VerifyLoginOtp("111111", temp_token)
  \/ \E jwt \in KnownJwts : S_RefreshToken(jwt)
  \/ \E jwt \in KnownJwts : S_DeleteAccount(jwt)
  \/ \E jwt \in KnownJwts, user_id \in UserIds, action \in AdminActions :
       S_UserAction(jwt, user_id, action)
  \/ \E jwt \in KnownJwts, user_id \in UserIds : S_ApproveUser(jwt, user_id)
  \/ \E jwt \in KnownJwts, user_id \in UserIds : S_RejectUser(jwt, user_id)

\* the users table at startup: the administrator and a doctor, each with or
\* without two-factor authentication, the doctor with one of the statuses
InitUsers(statuses) ==
  /\ Started
  /\ artifact = [p \in Paths |-> "ok"]
  /\ calc = NoCalc
  /\ trial = NoTrial
  /\ clinic = NoClinic
  /\ owned = NoOwned
  /\ dataset_access = NoDatasetAccess
  /\ \E f1, f2 \in BOOLEAN, st \in statuses :
       auth = [NoAuth EXCEPT
                 !.users = {[User(1, ADMIN_EMAIL, "admin", "active") EXCEPT
                               !.two_fa_enabled = f1],
                            [User(2, DOCTOR_EMAIL, "doctor", st) EXCEPT
                               !.two_fa_enabled = f2]},
                 !.next_user_id = 3]

InitOtp == InitUsers({"active"}) /\ \A u \in auth.users : u.two_fa_enabled
InitAccounts == InitUsers({"pending", "active"})

SpecOtp == InitOtp /\ [][NextOtp]_vars
SpecReset == InitAccounts /\ [][NextReset]_vars
SpecAccounts == InitAccounts /\ [][NextAccounts]_vars

(***************************************************************************)
(* Who may read and delete an upload: get_upload_status,                   *)
(* get_upload_results, delete_upload and download_pdf_report, with         *)
(* upload_pcg creating the rows.  The caller is the user get_current_user  *)
(* found for the request's token.                                          *)
(***************************************************************************)
OwnedFrame ==
  UNCHANGED <<classifier_instance, config, artifact, allocs, builds, loads,
              ncalls, last, uploads, thr, calc, trial, clinic, auth, dataset_access>>

Person(id, role) == [id |-> id, role |-> role]

\* the authenticated users that send requests
Callers == {Person(1, "patient"), Person(2, "patient"), Person(3, "doctor"),
            Person(4, "researcher"), Person(5, "admin")}
Uploaders == {c \in Callers : c.role \in {"patient", "doctor"}}
RequestedIds == 1 .. MaxUploads

OwnedAnswer(op, caller, upload_id, code, data) ==
  [op |-> op, caller |-> caller.id, upload_id |-> upload_id, code |-> code,
   data |-> data]

\* an access test that lets every member of the staff in
has_access_staff(upload, current_user) ==
  upload.user_id = current_user.id \/ current_user.role \in {"doctor", "admin"}

\* the access test of get_upload_results and download_pdf_report
has_access(upload, current_user) ==
  upload.user_id = current_user.id \/ current_user.role = "doctor"

\* the query of get_upload_status and delete_upload: id and owner
OwnQuery(rows, upload_id, current_user) ==
  {u \in {upload_id} : rows[u].exists /\ rows[u].user_id = current_user.id}

\* upload_pcg up to its first commit
O_UploadCommit(current_user) ==
  /\ owned.next_id <= MaxUploads
  /\ owned' = [owned EXCEPT
                 !.rows[owned.next_id] =
                    [exists |-> TRUE, user_id |-> current_user.id,
                     status |-> "processing", result |-> FALSE],
                 !.next_id = @ + 1,
                 !.last = OwnedAnswer("upload", current_user, owned.next_id, 0, FALSE)]
  /\ OwnedFrame

\* upload_pcg, second commit: the analysis result, status COMPLETED
O_AnalysisCommit(u) ==
  /\ owned.rows[u].exists /\ owned.rows[u].status = "processing"
  /\ owned' = [owned EXCEPT
                 !.rows[u] = [@ EXCEPT !.status = "completed", !.result = TRUE],
                 !.last = [op |-> "upload", caller |-> owned.rows[u].user_id,
                           upload_id |-> u, code |-> 201, data |-> TRUE]]
  /\ OwnedFrame

\* GET /pcg/{upload_id}/status
O_Status(current_user, upload_id) ==
  /\ owned' = [owned EXCEPT !.last =
                 IF OwnQuery(owned.rows, upload_id, current_user) = {}
                   THEN OwnedAnswer("status", current_user, upload_id, 404, FALSE)
                   ELSE OwnedAnswer("status", current_user, upload_id, 200, TRUE)]
  /\ OwnedFrame

\* GET /pcg/{upload_id}/results
O_Results(current_user, upload_id) ==
  /\ \E upload \in {owned.rows[upload_id]} :
       owned' = [owned EXCEPT !.last =
          IF ~upload.exists
            THEN OwnedAnswer("results", current_user, upload_id, 404, FALSE)
          ELSE IF ~has_access(upload, current_user)
            THEN OwnedAnswer("results", current_user, upload_id, 403, FALSE)
          ELSE IF upload.status # "completed"
            THEN OwnedAnswer("results", current_user, upload_id, 200, FALSE)
          ELSE OwnedAnswer("results", current_user, upload_id, 200, upload.result)]
  /\ OwnedFrame

\* GET /pcg/{upload_id}/download-report
O_Report(current_user, upload_id) ==
  /\ \E upload \in {owned.rows[upload_id]} :
       owned' = [owned EXCEPT !.last =
          IF ~upload.exists
            THEN OwnedAnswer("report", current_user, upload_id, 404, FALSE)
          ELSE IF ~has_access(upload, current_user)
            THEN OwnedAnswer("report", current_user, upload_id, 403, FALSE)
          ELSE IF ~upload.result
            THEN OwnedAnswer("report", current_user, upload_id, 404, FALSE)
          ELSE OwnedAnswer("report", current_user, upload_id, 200, TRUE)]
  /\ OwnedFrame

\* DELETE /pcg/{upload_id}
O_Delete(current_user, upload_id) ==
  /\ IF OwnQuery(owned.rows, upload_id, current_user) = {}
       THEN owned' = [owned EXCEPT !.last =
                        OwnedAnswer("delete", current_user, upload_id, 404, FALSE)]
       ELSE owned' = [owned EXCEPT
                        !.rows[upload_id] = NoOwned.rows[upload_id],
                        !.last = OwnedAnswer("delete", current_user, upload_id, 200, FALSE)]
  /\ OwnedFrame

NextAccess ==
  \/ \E c \in Uploaders : O_UploadCommit(c)
  \/ \E u \in RequestedIds : O_AnalysisCommit(u)
  \/ \E c \in Callers, u \in RequestedIds : O_Status(c, u)
  \/ \E c \in Callers, u \in RequestedIds : O_Results(c, u)
  \/ \E c \in Callers, u \in RequestedIds : O_Report(c, u)
  \/ \E c \in Callers, u \in RequestedIds : O_Delete(c, u)

SpecAccess == InitClinic /\ [][NextAccess]_vars

(***************************************************************************)
(* Access to datasets: request_dataset_access by researchers and           *)
(* review_dataset_access by administrators, on the table dataset_access.   *)
(* A row's id is its position in rows.                                     *)
(***************************************************************************)
DatasetFrame ==
  UNCHANGED <<classifier_instance, config, artifact, allocs, builds, loads,
              ncalls, last, uploads, thr, calc, trial, clinic, auth, owned>>

Datasets == {1}                  \* the ids in the table datasets
DatasetIds == {1, 2}             \* dataset_id, as sent
ResearcherIds == {4, 6}          \* callers that pass require_researcher
ReviewActions == {"approve", "Reject", "hold"}
ReviewLower(action) == IF action = "Reject" THEN "reject" ELSE action

DatasetAnswer(op, code, dataset_id, researcher_id, request_id) ==
  [op |-> op, code |-> code, dataset_id |-> dataset_id,
   researcher_id |-> researcher_id, request_id |-> request_id]

\* the rows a query for (dataset, researcher) selects, by id
AccessRows(rows, dataset_id, researcher_id) ==
  {i \in 1 .. Len(rows) :
     rows[i].dataset_id = dataset_id /\ rows[i].researcher_id = researcher_id}

\* POST /researcher/request-dataset-access: .first() hands the handler one
\* of the rows of the pair, in no stated order
D_Request(researcher_id, dataset_id) ==
  /\ IF dataset_id \notin Datasets
       THEN dataset_access' = [dataset_access EXCEPT !.last =
              DatasetAnswer("request", 404, dataset_id, researcher_id, None)]
       ELSE \E found \in {AccessRows(dataset_access.rows, dataset_id, researcher_id)} :
              \E existing \in IF found = {} THEN {None} ELSE found :
                IF existing # None
                   /\ dataset_access.rows[existing].status \in {"approved", "pending"}
                  THEN dataset_access' = [dataset_access EXCEPT !.last =
                         DatasetAnswer("request", 400, dataset_id, researcher_id, existing)]
                  ELSE /\ Len(dataset_access.rows) < MaxAccessRequests
                       /\ dataset_access' =
                            [rows |-> Append(dataset_access.rows,
                                             [dataset_id |-> dataset_id,
                                              researcher_id |-> researcher_id,
                                              status |-> "pending"]),
                             last |-> DatasetAnswer("request", 200, dataset_id, researcher_id,
                                                    Len(dataset_access.rows) + 1)]
  /\ DatasetFrame

\* POST /admin/dataset-access/{request_id}/review
D_Review(request_id, action) ==
  /\ IF request_id \notin 1 .. Len(dataset_access.rows)
       THEN dataset_access' = [dataset_access EXCEPT !.last =
              DatasetAnswer("review", 404, None, None, request_id)]
     ELSE IF ReviewLower(action) \notin {"approve", "reject"}
       THEN dataset_access' = [dataset_access EXCEPT !.last =
              DatasetAnswer("review", 400, None, None, request_id)]
     ELSE dataset_access' =
            [dataset_access EXCEPT
               !.rows[request_id].status =
                  IF ReviewLower(action) = "approve" THEN "approved" ELSE "rejected",
               !.last = DatasetAnswer("review", 200, dataset_access.rows[request_id].dataset_id,
                                      dataset_access.rows[request_id].researcher_id,
                                      request_id)]
  /\ DatasetFrame

NextDatasets ==
  \/ \E r \in ResearcherIds, d \in DatasetIds : D_Request(r, d)
  \/ \E id \in 1 .. MaxAccessRequests + 1, action \in ReviewActions : D_Review(id, action)

SpecDatasets == InitClinic /\ [][NextDatasets]_vars

(***************************************************************************)
(* Properties                                                              *)
(***************************************************************************)
FullOrder ==
  {<<"normalize", "analog", "spectral", "classifier", "calibrator", "assemble">>,
   <<"normalize", "spectral", "analog", "classifier", "calibrator", "assemble">>}

\* the weight file can be read and the given file decodes
Returned == last.analysed /\ last.gc_ok /\ last.pred.outcome = "result"

\* C1: every result returned for an audio file, by predict and by the upload
\* that calls it, was produced by normalize, the two feature extractions,
\* the classifier, the calibrator and the assembly, in that order; none
\* skipped the calibrator.
C1_EveryResultIsCalibrated == Returned => last.pred.steps \in FullOrder

\* the analysis of the last upload failed or was skipped
UploadWithoutResult ==
  /\ last.entry = "upload_pcg"
  /\ last.response.code = 201
  /\ ~last.analysed \/ ~last.gc_ok \/ last.pred.outcome # "result"

\* C2: an upload whose analysis failed or was skipped (predict raised, the
\* model could not be loaded, the file is missing or is no WAV) stores the
\* classification PENDING and answers with null classification and
\* confidence.
C2_FailedUploadIsPending ==
  UploadWithoutResult =>
    /\ uploads # << >>
    /\ uploads[Len(uploads)].classification = "PENDING"
    /\ last.response.classification = "null"
    /\ last.response.confidence = NullConfidence

C2_Witness ==
  /\ UploadWithoutResult
  /\ last.analysed /\ last.gc_ok /\ last.pred.outcome = "raised"
  /\ Len(uploads) = 2
  /\ uploads[1].classification = "ABNORMAL"
  /\ uploads[2].classification = "PENDING"

\* the temperature the scores of the last call are to be calibrated with
LastTemperature ==
  IF last.instance.TEMPERATURE = NoTemperature THEN TEMPERATURE
                                               ELSE last.instance.TEMPERATURE

\* C3: in every result of predict the confidence is 100 times the larger
\* calibrated score (to two decimals), the label is the argmax of the
\* calibrated scores (0 NORMAL, 1 ABNORMAL, a tie 0) and the probability
\* pair is that same calibrated pair.
C3_ResultFromCalibratedScores ==
  Returned =>
    LET cal == Calibrate(last.pred.raw, LastTemperature)
    IN /\ last.pred.result.confidence = Round2(Max2(cal[1], cal[2]))
       /\ last.pred.result.label = (IF ArgMax(cal) = 0 THEN "NORMAL" ELSE "ABNORMAL")
       /\ last.pred.result.normal = Round2(cal[1])
       /\ last.pred.result.abnormal = Round2(cal[2])

\* C4: for every raw pair (p, 1-p) and every temperature, the argmax of the
\* calibrated pair is the argmax of the raw pair.
C4_CalibrationKeepsArgMax == calc.done => ArgMax(calc.out) = ArgMax(calc.raw)

\* C5: once a get_classifier call of a service has succeeded, every later
\* call of it, whatever its arguments, returns that same instance and does
\* no architecture build and no weight load.
C5_LoadedOnce ==
  [][\A v \in Variants :
       classifier_instance[v] # NoInstance =>
         /\ classifier_instance'[v] = classifier_instance[v]
         /\ builds'[v] = builds[v]
         /\ loads'[v] = loads[v]
         /\ (ncalls' # ncalls /\ last'.analysed /\ last'.variant = v) =>
              (last'.gc_ok /\ last'.instance = classifier_instance[v])]_vars

\* a later call with another temperature and a path without weight file got
\* the instance of the first call
C5_Witness ==
  /\ last.variant = "calibrated"
  /\ last.gc_ok
  /\ last.temp # last.instance.TEMPERATURE
  /\ artifact[last.path] = "missing"
  /\ loads["calibrated"] = 1
  /\ ncalls = 2

\* the callers of service v that hold an instance
Holders(v) == {t \in Threads : thr[t].variant = v /\ thr[t].pc \in {"have", "done"}}

\* the callers of service v whose constructor loaded the weights
Loaders(v) == {t \in Threads : thr[t].variant = v /\ thr[t].obj.weights_loaded}

\* C6: when several callers call get_classifier while no instance exists,
\* the weights are loaded once and all callers get the same instance.
C6_ConcurrentCallersShareOneLoad ==
  \A v \in Variants :
    /\ Cardinality(Loaders(v)) <= 1
    /\ \A t1, t2 \in Holders(v) : thr[t1].ret = thr[t2].ret

\* C7: predict runs only on a classifier whose build and weight load both
\* completed: what get_classifier publishes and returns is fully constructed.
C7_PredictOnlyOnLoadedModel ==
  /\ \A v \in Variants :
       classifier_instance[v] # NoInstance =>
         classifier_instance[v].model_built /\ classifier_instance[v].weights_loaded
  /\ \A t \in Threads :
       thr[t].pc \in {"have", "done"} =>
         thr[t].ret.model_built /\ thr[t].ret.weights_loaded

\* one caller has predicted while the constructor of another one failed
\* after the build
C7_Witness ==
  \E t1, t2 \in Threads :
    /\ thr[t1].pc = "done" /\ thr[t1].outcome = "result"
    /\ thr[t2].pc = "raised"
    /\ thr[t2].variant = thr[t1].variant
    /\ thr[t2].obj.model_built /\ ~thr[t2].obj.weights_loaded

\* C8: a predict call, returning or raising, leaves the singleton, the
\* loaded weights and the configuration constants as they were, and a
\* failed load leaves the singleton as it was (unset when it was unset).
C8_PredictAndFailedLoadKeepSharedState ==
  [][\A t \in Threads :
       /\ (thr[t].pc = "have" /\ thr'[t].pc = "done") =>
            /\ classifier_instance' = classifier_instance
            /\ config' = config
            /\ thr'[t].ret = thr[t].ret
       /\ (thr[t].pc # "raised" /\ thr'[t].pc = "raised") =>
            /\ classifier_instance' = classifier_instance
            /\ config' = config]_vars

\* a predict has raised with the singleton still in place, and a load has
\* failed with the singleton still unset
C8_Witness ==
  \E t1, t2 \in Threads :
    /\ thr[t1].pc = "done" /\ thr[t1].outcome = "raised"
    /\ classifier_instance[thr[t1].variant] = thr[t1].ret
    /\ thr[t1].ret.weights_loaded
    /\ thr[t2].pc = "raised"
    /\ classifier_instance[thr[t2].variant] = NoInstance

\* C9: every error of the pipeline (decoding, preprocessing, inference,
\* calibration, model loading) reaches the caller of the inference entry
\* point as a raised error.
C9_ErrorsReachTheCaller ==
  (last.analysed /\ (~last.gc_ok \/ last.pred.outcome = "raised")) =>
    last.returned = "raised"

\* C10: an input that decodes to zero samples makes the classification fail;
\* it is not padded to an all-zero signal and classified.
C10_EmptyAudioFails ==
  (last.analysed /\ last.gc_ok /\ last.file.decode = "ok" /\ last.file.len = 0) =>
    last.pred.outcome = "raised"

\* a value of the recording under way is not finite: a decoded sample, a
\* feature, a raw score or a final score
TrialNonFinite ==
  \/ trial.file.values # "finite"
  \/ NaN \in {trial.pred.raw[1], trial.pred.raw[2],
              trial.pred.scores[1], trial.pred.scores[2]}

\* C11: when a value of the pipeline (decoded samples, features, raw or
\* calibrated scores) is not finite, the classification call raises; it
\* returns no result with a NORMAL or ABNORMAL label.
C11_NonFiniteValuesRaise ==
  (trial.pc \in {"done", "raised"} /\ TrialNonFinite) =>
    /\ trial.pred.outcome = "raised"
    /\ trial.pred.result.label \notin {"NORMAL", "ABNORMAL"}

\* C12: once loading the model has failed, every later classification of
\* that service in the same process fails too, whatever has happened to the
\* weight file since: the call after a call whose load failed does not load
\* and returns no result.
C12_FailedLoadStaysFailed ==
  [][(/\ last.analysed /\ ~last.gc_ok
      /\ ncalls' = ncalls + 1
      /\ last'.analysed /\ last'.variant = last.variant) =>
       (~last'.gc_ok /\ last'.returned # "result")]_vars

\* the recording under way has been through the pad-or-trim step
TrialNormalized ==
  \/ trial.pc \in {"normalized", "features", "done"}
  \/ trial.pc = "raised" /\ trial.norm # << >>

\* C13: for a decoded input at the target rate, of any length L, the
\* normalised audio has exactly FS_TARGET * DURATION = 6000 samples; sample i
\* is input sample i for i < min(L, 6000) and is 0 from L on.
C13_NormalizedIsPaddedPrefix ==
  (TrialNormalized /\ trial.file.sr = FS_TARGET) =>
    /\ Len(trial.norm) = (FS_TARGET * DURATION_TENTHS) \div 10
    /\ \A i \in 1 .. Len(trial.norm) :
         trial.norm[i] = IF i <= Len(trial.audio) THEN trial.audio[i] ELSE 0

\* a recording one sample short: its last sample is kept and one zero follows
C13_Witness ==
  /\ TrialNormalized
  /\ trial.file.sr = FS_TARGET
  /\ Len(trial.audio) = 5999
  /\ trial.norm[5999] # 0
  /\ trial.norm[6000] = 0

\* C14: for every input that decodes, whatever its duration and sample rate,
\* preprocessing gives an analog feature of exactly ANALOG_LEN = 250 values
\* and a spectral feature of exactly MFCC_LEN = 38 rows of N_MFCC = 20
\* values: the rows are the frames produced, in order, cut after the 38th,
\* and the rows after the last frame produced are all zero.
C14_FeatureShapes ==
  trial.pc \in {"features", "done"} =>
    /\ Len(trial.analog) = ANALOG_LEN
    /\ Len(trial.mfcc) = MFCC_LEN
    /\ \A j \in 1 .. Len(trial.mfcc) :
         /\ Len(trial.mfcc[j]) = N_MFCC
         /\ trial.mfcc[j] = IF j <= Len(trial.frames)
                               THEN trial.frames[j]
                               ELSE [c \in 1 .. N_MFCC |-> 0]

\* a recording at another rate than the target: fewer frames than 38 were
\* produced, the last of them is in place and the last row is zero
C14_Witness ==
  /\ trial.pc = "features"
  /\ trial.file.sr # FS_TARGET
  /\ Len(trial.frames) < MFCC_LEN
  /\ trial.mfcc[Len(trial.frames)] = trial.frames[Len(trial.frames)]
  /\ trial.mfcc[Len(trial.frames)][1] # 0
  /\ trial.mfcc[MFCC_LEN] = [c \in 1 .. N_MFCC |-> 0]

\* C15: in every result predict returns, and in the analysis row stored
\* from it, probability_normal and probability_abnormal (two decimals each)
\* add up to 100.
C15_PercentagesSumTo100 ==
  (trial.pc = "done" /\ trial.pred.outcome = "result") =>
    /\ trial.pred.result.normal + trial.pred.result.abnormal = 100 * 100
    /\ trial.row.probability_normal + trial.row.probability_abnormal = 100 * 100

\* temperature T2 is higher than temperature T1
Hotter(T2, T1) == T2[1] * T1[2] > T1[1] * T2[2]

\* C16: for every raw pair other than (0.5, 0.5) the calibrated confidence,
\* the larger calibrated score, is strictly lower at every higher
\* temperature, and at every temperature above 1 it is strictly below the
\* raw confidence.
C16_ConfidenceFallsWithTemperature ==
  (calc.done /\ calc.raw[1] # calc.raw[2]) =>
    /\ \A T2 \in CalTemps :
         Hotter(T2, calc.T) =>
           \E hot \in {Calibrate(calc.raw, T2)} :
             Max2(hot[1], hot[2]) < Max2(calc.out[1], calc.out[2])
    /\ Hotter(calc.T, <<1, 1>>) =>
         Max2(calc.out[1], calc.out[2]) < Max2(calc.raw[1], calc.raw[2])

\* what the loaded network and the final stage make of the bytes of file f
\* on an instance of service v: a function of nothing else
ResultOf(v, instance, f) ==
  Assemble(FinalScores(v, ModelPredict(f), instance.TEMPERATURE))

TrialSilent ==
  /\ trial.file.decode = "ok" /\ trial.file.values = "finite"
  /\ trial.file.sr = FS_TARGET
  /\ Len(trial.audio) = (FS_TARGET * DURATION_TENTHS) \div 10
  /\ \A i \in 1 .. Len(trial.audio) : trial.audio[i] = 0

\* C18: a silent 3-second input at 2000 Hz does not raise; it gets a
\* definite label, NORMAL or ABNORMAL, and a confidence strictly below 100 %.
C18_SilenceIsClassifiedBelow100 ==
  (trial.pc \in {"done", "raised"} /\ TrialSilent) =>
    /\ trial.pred.outcome = "result"
    /\ trial.pred.result.label \in {"NORMAL", "ABNORMAL"}
    /\ trial.pred.result.confidence < 100 * 100

\* the order of the clinical workflow
WorkflowOrder == <<"upload", "analysis", "review", "suggestion">>

\* C19: for every upload the stored events come in the order upload,
\* analysis result, doctor review, researcher suggestion: a review is
\* recorded only on an existing analysis result, a suggestion is stored only
\* when the analysis result already carries a doctor classification, and a
\* rejected review or suggestion stores nothing.
C19_WorkflowOrder ==
  [][\A u \in UploadIds :
       /\ clinic'.rows[u].log = SubSeq(WorkflowOrder, 1, Len(clinic'.rows[u].log))
       /\ (clinic'.rows[u].reviewed /\ ~clinic.rows[u].reviewed) => clinic.rows[u].analysis
       /\ (clinic'.rows[u].suggestions \ clinic.rows[u].suggestions # {}) =>
            (/\ clinic.rows[u].upload /\ clinic.rows[u].analysis
             /\ clinic.rows[u].doctor_classification # "None")
       /\ (clinic'.last.op \in {"review", "suggest"} /\ clinic'.last.code # 200) =>
            clinic'.rows = clinic.rows]_vars

\* one upload has gone through all four stages while a suggestion for
\* another one, reviewed without a classification, has just been refused
C19_Witness ==
  \E u1, u2 \in UploadIds :
    /\ clinic.rows[u1].log = WorkflowOrder
    /\ clinic.rows[u1].suggestions # {}
    /\ clinic.rows[u2].reviewed
    /\ clinic.rows[u2].doctor_classification = "None"
    /\ clinic.rows[u2].suggestions = {}
    /\ clinic.last = Answer("suggest", u2, 400)

\* C20: a signup request never adds a row to users, and a row is added to
\* users only by verify_signup_otp answering a request whose code and signup
\* token match an unused, unexpired SIGNUP_VERIFY row of otp_tokens that
\* belongs to the pending registration the new user comes from.
C20_UserOnlyAfterVerifiedSignup ==
  [][/\ auth'.last.op = "signup" => auth'.users = auth.users
     /\ \A u \in auth'.users \ auth.users :
          /\ auth'.last.op = "verify_signup_otp"
          /\ \E o \in auth.otp_tokens, p \in auth.pending_signups :
               /\ o.token_type = "SIGNUP_VERIFY"
               /\ o.used = None
               /\ o.expires_at > auth.now
               /\ o.otp_code = auth'.last.otp
               /\ o.temp_token = auth'.last.token
               /\ p.token = o.temp_token
               /\ p.email = u.email]_vars

\* signup has stored a registration and its code, the code has been sent to
\* verify-signup-otp before it expired, and no user has that address
C20_Witness ==
  \E p \in auth.pending_signups, o \in auth.otp_tokens :
    /\ o.temp_token = p.token
    /\ o.used = None
    /\ o.expires_at > auth.now
    /\ auth.last.op = "verify_signup_otp"
    /\ auth.last.otp = o.otp_code
    /\ \A u \in auth.users : u.email # p.email

\* C21: a verify-signup-otp request that carries the code and the signup
\* token of a pending registration, before the code expires, completes the
\* registration: afterwards a user with the registration's address exists,
\* email_verified, ACTIVE for a patient and PENDING for a doctor or
\* researcher, the OTP row is marked used and the pending entry is gone.
C21_VerifiedSignupCompletes ==
  [][\A o \in auth.otp_tokens, p \in auth.pending_signups :
       (/\ auth'.last.op = "verify_signup_otp"
        /\ auth'.last # auth.last
        /\ auth'.last.otp = o.otp_code
        /\ auth'.last.token = o.temp_token
        /\ o.token_type = "SIGNUP_VERIFY"
        /\ is_valid(o, auth.now)
        /\ p.token = o.temp_token)
       => (/\ \E u \in auth'.users :
                /\ u.email = p.email
                /\ u.email_verified
                /\ u.status = IF p.role = "patient" THEN "active" ELSE "pending"
           /\ \E o2 \in auth'.otp_tokens : o2.id = o.id /\ o2.used # None
           /\ p \notin auth'.pending_signups)]_vars

\* the user a temp token was made for: the sub of its payload
TempTokenSub(temp_token) == temp_token \div JwtBase

\* C22: for a user with two-factor authentication a login answers without
\* access or refresh token, and verify-login-otp returns tokens for user u
\* only to a request that carries a temp token login made for u together
\* with the code of an unused, unexpired LOGIN_2FA row created for u with
\* that temp token.
C22_TwoFactorNeedsTempTokenAndOtp ==
  [][/\ (/\ auth'.last.op = "login" /\ auth'.last.code = 200
          /\ \E u \in auth.users : u.id = auth'.last.user_id /\ u.two_fa_enabled)
         => (~auth'.last.tokens /\ auth'.jwts = auth.jwts)
     /\ (/\ auth'.last.op = "verify_login_otp" /\ auth'.last.tokens
          /\ auth'.otp_tokens # auth.otp_tokens)
         => (/\ auth'.last.token # None
             /\ TempTokenSub(auth'.last.token) = auth'.last.user_id
             /\ \E o \in auth.otp_tokens :
                  /\ o.user_id = auth'.last.user_id
                  /\ o.token_type = "LOGIN_2FA"
                  /\ is_valid(o, auth.now)
                  /\ o.otp_code = auth'.last.otp
                  /\ o.temp_token = auth'.last.token)]_vars

\* the role of the caller with this id
RoleOf(id) == (CHOOSE c \in Callers : c.id = id).role

\* C23: results and report of an existing upload go only to its owner or to
\* a caller whose role is doctor, every other caller gets 403 and no data;
\* status answers and deletes only for the owner of the upload.
C23_ResultsOnlyForOwnerOrDoctor ==
  [][\A u \in RequestedIds :
       (owned'.last # owned.last /\ owned'.last.upload_id = u) =>
         LET row == owned.rows[u]
             ans == owned'.last
             entitled == row.user_id = ans.caller \/ RoleOf(ans.caller) = "doctor"
         IN  /\ (ans.op \in {"results", "report"} /\ row.exists /\ ~entitled)
                  => (ans.code = 403 /\ ~ans.data)
             /\ (ans.op \in {"results", "report"} /\ ans.data)
                  => (row.exists /\ entitled)
             /\ (ans.op = "status" /\ ans.code = 200)
                  => (row.exists /\ row.user_id = ans.caller)
             /\ (ans.op \in {"status", "delete"} /\ row.user_id # ans.caller)
                  => (ans.code = 404 /\ ~ans.data /\ owned'.rows = owned.rows)
             /\ (ans.op = "delete" /\ owned'.rows # owned.rows)
                  => (row.exists /\ row.user_id = ans.caller)]_vars

\* an upload with its result exists, and the administrator, who neither
\* owns it nor is a doctor, has just been refused its results
C23_Witness ==
  \E u \in RequestedIds :
    /\ owned.rows[u].exists /\ owned.rows[u].result
    /\ owned.rows[u].user_id = 1
    /\ owned.last = [op |-> "results", caller |-> 5, upload_id |-> u, code |-> 403,
                      data |-> FALSE]

\* the status of the user with this id, "none" if there is no such user
StatusOf(a, id) ==
  IF UserById(a, id) = {} THEN "none" ELSE (CHOOSE u \in UserById(a, id) : TRUE).status

\* C24: approve_user changes a status only from PENDING to ACTIVE and
\* reject_user only from PENDING to REJECTED; for a user who is not PENDING
\* both fail and leave the status as it was.
C24_ApproveRejectOnlyPending ==
  [][\A u \in auth.users :
       (/\ auth'.last.op \in {"approve_user", "reject_user"}
        /\ auth'.last.user_id = u.id
        /\ auth'.last # auth.last \/ auth'.users # auth.users)
       => IF u.status = "pending"
            THEN StatusOf(auth', u.id) =
                   IF auth'.last.op = "approve_user" THEN "active" ELSE "rejected"
            ELSE auth'.last.code # 200 /\ StatusOf(auth', u.id) = u.status]_vars

\* C25: login, verify-login-otp and refresh-token return access and refresh
\* tokens only for a user whose status is ACTIVE when they are returned,
\* whatever the administrator and the user did to the account before.
C25_TokensOnlyForActiveUsers ==
  [][(/\ auth'.last.tokens
      /\ auth'.last.op \in {"login", "verify_login_otp", "refresh_token"}
      /\ auth'.last # auth.last \/ auth'.jwts # auth.jwts
           \/ auth'.otp_tokens # auth.otp_tokens)
     => StatusOf(auth, auth'.last.user_id) = "active"]_vars

\* the handlers that accept a code through verify_otp
OtpVerifiers == {"reset_password", "verify_login_otp"}

RowsOf(a, user_id, otp_type) ==
  {o \in a.otp_tokens : o.user_id = user_id /\ o.token_type = otp_type}

\* C27: for every user and every OTP type at most one row is unused, and it
\* is the row created last for that user and type: create_otp has marked
\* every earlier one used.
C27_OneUnusedOtpPerUserAndType ==
  \A u \in auth.users, otp_type \in {"LOGIN_2FA", "PASSWORD_RESET"} :
    \A o \in RowsOf(auth, u.id, otp_type) :
      o.used = None => \A o2 \in RowsOf(auth, u.id, otp_type) :
                         o2.id <= o.id /\ (o2.id < o.id => o2.used # None)

\* a user asked for a second login code before any code was accepted: two
\* rows, the earlier one retired, the later one unused
C27_Witness ==
  /\ auth.jwts = {}
  /\ \E u \in auth.users :
       \E o, o2 \in RowsOf(auth, u.id, "LOGIN_2FA") :
         o2.id < o.id /\ o.used = None /\ o2.used # None

\* C28: every (dataset, researcher) pair has at most one access request
\* whose status is PENDING or APPROVED.
C28_OneLiveRequestPerPair ==
  \A d \in DatasetIds, r \in ResearcherIds :
    Cardinality({i \in AccessRows(dataset_access.rows, d, r) :
                   dataset_access.rows[i].status \in {"pending", "approved"}}) <= 1

====
